---- MODULE Spec2Model ----
(***************************************************************************)
(* A state-machine model of CompliantContactSubsystem                      *)
(* (src/src/CompliantContactSubsystem.cpp): the generator registry, the    *)
(* two lazily evaluated, stage-gated cache entries (contact forces and     *)
(* potential energy), the dissipated-energy state variable and the Hertz / *)
(* Hunt-Crossley / Stribeck force generator.                               *)
(*                                                                         *)
(* Real numbers are exact rationals <<num, den>> with den > 0, kept in     *)
(* lowest terms.  <<0, 0>> is a value that was never written (an           *)
(* uninitialised double) and <<1, 0>> is NaN.  Vec3 is a triple of         *)
(* rationals, SpatialVec a pair <<torque, force>> of Vec3.                 *)
(***************************************************************************)
EXTENDS Integers, Sequences, FiniteSets, TLC

(***************************************************************************)
(* Bounds of the model.                                                    *)
(***************************************************************************)
\* Generator objects that are ever allocated (3 by the constructor).
MaxGens == 4
\* Contacts the tracker reports in one snapshot.
MaxContacts == 2

(***************************************************************************)
(* Exact rational arithmetic standing in for Real.                         *)
(***************************************************************************)
RECURSIVE GCD(_, _)
GCD(a, b) == IF b = 0 THEN a ELSE GCD(b, a % b)

Abs(n) == IF n < 0 THEN -n ELSE n

\* n/d divided through by g, with a positive denominator (d # 0).
Reduce(n, d, g) ==
    IF d < 0 THEN <<(-n) \div g, (-d) \div g>> ELSE <<n \div g, d \div g>>

\* n/d in lowest terms
Norm(n, d) == Reduce(n, d, GCD(Abs(n), Abs(d)))

R(n) == <<n, 1>>
Unset == <<0, 0>>
NaN == <<1, 0>>

RAdd(a, b) == Norm(a[1] * b[2] + b[1] * a[2], a[2] * b[2])
RSub(a, b) == Norm(a[1] * b[2] - b[1] * a[2], a[2] * b[2])
RMul(a, b) == Norm(a[1] * b[1], a[2] * b[2])
RDiv(a, b) == Norm(a[1] * b[2], a[2] * b[1])
RNeg(a) == <<-a[1], a[2]>>
RLe(a, b) == a[1] * b[2] <= b[1] * a[2]
RLt(a, b) == a[1] * b[2] < b[1] * a[2]

\* std::sqrt, exact on the perfect squares the model's inputs produce.
ISqrt(n) == CHOOSE r \in 0..n : r * r <= n /\ (r + 1) * (r + 1) > n
RSqrt(a) == <<ISqrt(a[1]), ISqrt(a[2])>>

Vec3Zero == <<R(0), R(0), R(0)>>
Vec3Unset == <<Unset, Unset, Unset>>
VAdd(u, v) == <<RAdd(u[1], v[1]), RAdd(u[2], v[2]), RAdd(u[3], v[3])>>
VSub(u, v) == <<RSub(u[1], v[1]), RSub(u[2], v[2]), RSub(u[3], v[3])>>
VScale(s, v) == <<RMul(s, v[1]), RMul(s, v[2]), RMul(s, v[3])>>
VNeg(v) == <<RNeg(v[1]), RNeg(v[2]), RNeg(v[3])>>
VDot(u, v) == RAdd(RMul(u[1], v[1]), RAdd(RMul(u[2], v[2]), RMul(u[3], v[3])))
\* operator% on Vec3: the cross product
VCross(u, v) ==
    <<RSub(RMul(u[2], v[3]), RMul(u[3], v[2])),
      RSub(RMul(u[3], v[1]), RMul(u[1], v[3])),
      RSub(RMul(u[1], v[2]), RMul(u[2], v[1]))>>
IVec(x, y, z) == <<R(x), R(y), R(z)>>

(***************************************************************************)
(* Realization stages of a State, in order.                                *)
(***************************************************************************)
StageEmpty == 0
StageTopology == 1
StageModel == 2
StageInstance == 3
StageTime == 4
StagePosition == 5
StageVelocity == 6
StageDynamics == 7
StageAcceleration == 8
StageReport == 9

(***************************************************************************)
(* Contact types, generators and contact forces.                           *)
(***************************************************************************)
\* ContactTypeIds: circular point contact (HertzCircular), triangle mesh
\* contact (ElasticFoundation), a user-defined type that a user-defined
\* generator handles, and a type nobody has written a generator for.
CircularPointTypeId == 1
TriangleMeshTypeId == 2
UserTypeId == 3
OtherTypeId == 4
TypeIds == {CircularPointTypeId, TriangleMeshTypeId, UserTypeId, OtherTypeId}

\* The null pointer, and the generator objects: pointers 1..MaxGens, handed
\* out by operator new in this order.
NullGen == 0
Gens == 1..MaxGens

InvalidContactId == -1

\* A default-constructed ContactForce: an invalid contact id, and every
\* other member never written.
DefaultContactForce ==
    [m_contactId |-> InvalidContactId,
     m_centerOfPressureInG |-> Vec3Unset,
     m_forceOnSurface2InG |-> <<Vec3Unset, Vec3Unset>>,
     m_potentialEnergy |-> Unset,
     m_powerLoss |-> Unset]

\* ContactForce::clear() invalidates the contact id and nothing else.
ContactForce_clear(f) == [f EXCEPT !.m_contactId = InvalidContactId]
ContactForce_isValid(f) == f.m_contactId # InvalidContactId

(***************************************************************************)
(* What the contact tracker and the matter subsystem supply.               *)
(***************************************************************************)
\* ContactMaterial of a contact surface: stiffness^(2/3), dissipation and the
\* static, dynamic and viscous friction coefficients.
getMaterial(surf) ==
    IF surf = 1
    THEN [k23 |-> R(2), c |-> R(1), us |-> R(1), ud |-> <<1, 2>>, uv |-> R(1)]
    ELSE [k23 |-> R(8), c |-> R(0), us |-> <<1, 2>>, ud |-> <<1, 4>>, uv |-> R(0)]

\* A circular point contact between two surfaces (MkContact: between surface
\* 1 and surface 2): the tracker's
\* geometry (depth, normal from surface 1 to surface 2, origin, effective
\* radius) and, from the State's velocities, the velocity of body 1's
\* material point at the contact minus that of body 2's.
MkContactOn(id, type, depth, vel, surf1, surf2) ==
    [id |-> id, typeId |-> type, surf1 |-> surf1, surf2 |-> surf2,
     depth |-> R(depth), normal |-> IVec(0, 0, 1), origin |-> IVec(0, 0, 0),
     radius |-> R(1), vel |-> vel]

MkContact(id, type, depth, vel) ==
    [id |-> id, typeId |-> type, surf1 |-> 1, surf2 |-> 2,
     depth |-> R(depth), normal |-> IVec(0, 0, 1), origin |-> IVec(0, 0, 0),
     radius |-> R(1), vel |-> vel]

\* square(SignificantReal): the slip speed squared below which friction is
\* not evaluated; every nonzero slip of the model lies far above it.
SignificantRealSq == <<1, 1000000>>

(***************************************************************************)
(* The friction curve.                                                     *)
(***************************************************************************)
\* x^3 (10 + x (6x - 15)) on 0 <= x <= 1
step5(x) ==
    LET x3 == RMul(x, RMul(x, x))
    IN  RMul(x3, RAdd(R(10), RMul(x, RSub(RMul(R(6), x), R(15)))))

step5d(y, yd, x) ==
    LET a == RSub(RMul(R(6), y), RMul(R(3), yd))
        b == RAdd(RMul(R(-15), y), RMul(R(7), yd))
        c == RSub(RMul(R(10), y), RMul(R(4), yd))
        x3 == RMul(x, RMul(x, x))
    IN  RMul(x3, RAdd(c, RMul(x, RAdd(b, RMul(x, a)))))

\* Segment 4 of stribeck growing from v = 0 instead of v = 3.
stribeckSegment_slidingFromZero(segment, us, ud, uv, v) ==
    CASE segment = 1 -> RMul(us, step5(v))
      [] segment = 2 ->
             RSub(us, RMul(RSub(us, ud), step5(RDiv(RSub(v, R(1)), R(2)))))
      [] segment = 3 -> RAdd(ud, step5d(uv, uv, RSub(v, R(3))))
      [] segment = 4 -> RAdd(ud, RMul(uv, v))

\* The formulas of the four segments of stribeck: stiction, Stribeck,
\* transition, sliding.
stribeckSegment(segment, us, ud, uv, v) ==
    CASE segment = 1 -> RMul(us, step5(v))
      [] segment = 2 ->
             RSub(us, RMul(RSub(us, ud), step5(RDiv(RSub(v, R(1)), R(2)))))
      [] segment = 3 -> RAdd(ud, step5d(uv, uv, RSub(v, R(3))))
      [] segment = 4 -> RAdd(ud, RMul(uv, RSub(v, R(3))))

stribeck(us, ud, uv, v) ==
    IF RLe(v, R(1)) THEN stribeckSegment(1, us, ud, uv, v)
    ELSE IF RLe(v, R(3)) THEN stribeckSegment(2, us, ud, uv, v)
    ELSE IF RLe(v, R(4)) THEN stribeckSegment(3, us, ud, uv, v)
    ELSE stribeckSegment(4, us, ud, uv, v)

\* The division done whether or not u is zero: 0/0 is not a number.
DivideAlways(u, u1, u2) ==
    IF RAdd(u1, u2) = R(0) THEN NaN ELSE RDiv(u, RAdd(u1, u2))

\* Real u = 2*u1*u2; if (u != 0) u /= (u1+u2);
DivideUnlessZero(u, u1, u2) == IF u # R(0) THEN RDiv(u, RAdd(u1, u2)) ELSE u
CombineFriction(u1, u2) == DivideUnlessZero(RMul(RMul(R(2), u1), u2), u1, u2)

(***************************************************************************)
(* ContactForceGenerator::HertzCircular::calcContactForce.                 *)
(* The V_GS1, V_GS2 arguments are never read: the velocities come from     *)
(* the State (vel).  vt and ooVt are the subsystem's transition velocity   *)
(* and its stored reciprocal.  contactForce is the caller's object, which  *)
(* the function fills in.                                                  *)
(*                                                                         *)
(* The function body below the depth test, top down; each operator is a    *)
(* stretch of the body, handed the locals computed so far.                 *)
(***************************************************************************)
\* forceFriction and powerFriction in hand: forceLoss, forceTotal and the
\* report of the force.
\* The report counting the power of the conservative force as lost too.
HertzReport_withConservativePower(contact, started, fH, xdot, fHC, forceFriction, powerFriction) ==
    [started EXCEPT
         !.m_forceOnSurface2InG =
             <<Vec3Zero,
               VAdd(VScale(fH, contact.normal),
                    VAdd(VScale(fHC, contact.normal), forceFriction))>>,
         !.m_potentialEnergy = RMul(RMul(<<2, 5>>, fH), contact.depth),
         !.m_powerLoss = RAdd(RMul(RAdd(fH, fHC), xdot), powerFriction)]

\* forceFriction and powerFriction in hand: the force is reported.
HertzReport(contact, started, fH, xdot, fHC, forceFriction, powerFriction) ==
    [started EXCEPT
         !.m_forceOnSurface2InG =
             <<Vec3Zero,
               VAdd(VScale(fH, contact.normal),
                    VAdd(VScale(fHC, contact.normal), forceFriction))>>,
         !.m_potentialEnergy = RMul(RMul(<<2, 5>>, fH), contact.depth),
         !.m_powerLoss = RAdd(RMul(fHC, xdot), powerFriction)]

\* vslip and fFriction = fNormal * mu in hand
HertzSlip(contact, started, fH, xdot, fHC, velTangent, vslip, fFriction) ==
    HertzReport(contact, started, fH, xdot, fHC,
                VScale(RDiv(fFriction, vslip), velTangent),
                RMul(fFriction, vslip))

\* HertzFriction evaluating friction for any slip that is not exactly zero.
HertzFriction_anySlip(contact, vt, ooVt, started, mat1, mat2, fH, xdot, fHC, velTangent, fNormal, vslipSq) ==
    IF RLt(R(0), vslipSq)
    THEN HertzSlip(contact, started, fH, xdot, fHC, velTangent,
             RSqrt(vslipSq),
             RMul(fNormal,
                  stribeck(CombineFriction(mat1.us, mat2.us),
                           CombineFriction(mat1.ud, mat2.ud),
                           RMul(CombineFriction(mat1.uv, mat2.uv), vt),
                           RMul(RSqrt(vslipSq), ooVt))))
    ELSE HertzReport(contact, started, fH, xdot, fHC, Vec3Zero, R(0))

\* vslipSq in hand: the friction force, if the surfaces slip
HertzFriction(contact, vt, ooVt, started, mat1, mat2, fH, xdot, fHC, velTangent, fNormal, vslipSq) ==
    IF RLt(SignificantRealSq, vslipSq)
    THEN HertzSlip(contact, started, fH, xdot, fHC, velTangent,
             RSqrt(vslipSq),
             RMul(fNormal,
                  stribeck(CombineFriction(mat1.us, mat2.us),
                           CombineFriction(mat1.ud, mat2.ud),
                           RMul(CombineFriction(mat1.uv, mat2.uv), vt),
                           RMul(RSqrt(vslipSq), ooVt))))
    ELSE HertzReport(contact, started, fH, xdot, fHC, Vec3Zero, R(0))

\* HertzNormal without the yanking test: the force law is followed through
\* a negative normal force.
HertzNormal_unclamped(contact, vt, ooVt, started, mat1, mat2, fH, xdot, fHC, velTangent) ==
    HertzFriction(contact, vt, ooVt, started, mat1, mat2, fH, xdot, fHC,
                  velTangent, RAdd(fH, fHC), VDot(velTangent, velTangent))

\* HertzNormal answering a yanking contact with an invalid force.
HertzNormal_clearOnYank(contact, vt, ooVt, started, mat1, mat2, fH, xdot, fHC, velTangent) ==
    IF RLe(RAdd(fH, fHC), R(0))
    THEN ContactForce_clear(started)
    ELSE HertzFriction(contact, vt, ooVt, started, mat1, mat2, fH, xdot, fHC,
                       velTangent, RAdd(fH, fHC), VDot(velTangent, velTangent))

\* fHC and velTangent in hand; started is contactForce with its contact id
\* and centre of pressure filled in.  fNormal <= 0 is "yanking".
HertzNormal(contact, vt, ooVt, started, mat1, mat2, fH, xdot, fHC, velTangent) ==
    IF RLe(RAdd(fH, fHC), R(0))
    THEN [started EXCEPT
              !.m_forceOnSurface2InG = <<Vec3Zero, Vec3Zero>>,
              !.m_potentialEnergy = R(0),
              !.m_powerLoss = R(0)]
    ELSE HertzFriction(contact, vt, ooVt, started, mat1, mat2, fH, xdot, fHC,
                       velTangent, RAdd(fH, fHC), VDot(velTangent, velTangent))

\* fH and xdot in hand
HertzVelocity(contact, vel, vt, ooVt, contactForce, mat1, mat2, contactPt, c, fH, xdot) ==
    HertzNormal(contact, vt, ooVt,
                [contactForce EXCEPT !.m_contactId = contact.id,
                                     !.m_centerOfPressureInG = contactPt],
                mat1, mat2, fH, xdot,
                RMul(RMul(RMul(fH, <<3, 2>>), c), xdot),
                VSub(vel, VScale(xdot, contact.normal)))

\* contactPt, k and c in hand
HertzElastic(contact, vel, vt, ooVt, contactForce, mat1, mat2, contactPt, k, c) ==
    HertzVelocity(contact, vel, vt, ooVt, contactForce, mat1, mat2, contactPt,
                  c,
                  RMul(RMul(RMul(<<4, 3>>, k), contact.depth),
                       RSqrt(RMul(RMul(contact.radius, k), contact.depth))),
                  VDot(vel, contact.normal))

\* s1 in hand
HertzShares(contact, vel, vt, ooVt, contactForce, mat1, mat2, s1) ==
    HertzElastic(contact, vel, vt, ooVt, contactForce, mat1, mat2,
                 VAdd(contact.origin,
                      VScale(RMul(contact.depth, RSub(<<1, 2>>, s1)),
                             contact.normal)),
                 RMul(mat1.k23, s1),
                 RAdd(RMul(mat1.c, s1), RMul(mat2.c, RSub(R(1), s1))))

\* s1 = k2/(k1+k2): the fraction of the deformation done by surface 1
ShareOfSquish(k1, k2) == RDiv(k2, RAdd(k1, k2))

\* k = k1*s1, the stiffness of the two materials combined
CombineStiffness(k1, k2) == RMul(k1, ShareOfSquish(k1, k2))

\* mat1 and mat2 in hand
HertzMaterials(contact, vel, vt, ooVt, contactForce, mat1, mat2) ==
    HertzShares(contact, vel, vt, ooVt, contactForce, mat1, mat2,
                ShareOfSquish(mat1.k23, mat2.k23))

\* Both materials are read from surface 1.
HertzForce(contact, vel, vt, ooVt, contactForce) ==
    HertzMaterials(contact, vel, vt, ooVt, contactForce,
                   getMaterial(contact.surf1), getMaterial(contact.surf1))

\* HertzCircular::calcContactForce testing depth < 0 where the code tests
\* depth <= 0.
HertzCircular_calcContactForce_strict(contact, velOk, vel, vt, ooVt, contactForce) ==
    IF RLt(contact.depth, R(0))
    THEN [force |-> ContactForce_clear(contactForce), err |-> "none"]
    ELSE IF ~velOk
    THEN [force |-> contactForce, err |-> "StageError"]
    ELSE [force |-> HertzForce(contact, vel, vt, ooVt, contactForce),
          err |-> "none"]

\* The result is [force, err]: err is "StageError" when the State refuses
\* the velocity read (velOk = FALSE), and "none" otherwise.
HertzCircular_calcContactForce(contact, velOk, vel, vt, ooVt, contactForce) ==
    IF RLe(contact.depth, R(0))
    THEN [force |-> ContactForce_clear(contactForce), err |-> "none"]
    ELSE IF ~velOk
    THEN [force |-> contactForce, err |-> "StageError"]
    ELSE [force |-> HertzForce(contact, vel, vt, ooVt, contactForce),
          err |-> "none"]

(***************************************************************************)
(* The state.                                                              *)
(***************************************************************************)
VARIABLES
    heap,                   \* heap[g]: the class of generator object g
    deletes,                \* deletes[g]: how often generator g has been
                            \* deleted
    m_generators,           \* the std::map, a set of <<type id, generator>>
    m_defaultGenerator,     \* a generator, or NullGen
    lastAdopted,            \* history: per type id, the generator that was
                            \* adopted last (NullGen: none yet)
    m_transitionVelocity,
    m_ooTransitionVelocity,
    stage,                  \* the stage the State is realized to
    contacts,               \* the tracker's active contacts for the State
    forceCache,             \* lazy cache entry: Array_<ContactForce>
    forceCacheValid,
    peCache,                \* lazy cache entry: Real
    peCacheValid,
    z,                      \* the dissipated-energy state variable
    zdot,                   \* its time derivative
    rigidBodyForces,        \* the System's per-body force array
    outcome,                \* how the last operation ended
    probe,                  \* the last function evaluated on its own: its
                            \* name, arguments and value
    clone,                  \* the registry members of the implementation
                            \* that cloneImpl made, or NoClone
    destroyed               \* the implementations whose destructor has run

vars == <<heap, deletes, m_generators, m_defaultGenerator, lastAdopted,
          m_transitionVelocity, m_ooTransitionVelocity, stage, contacts,
          forceCache, forceCacheValid, peCache, peCacheValid, z, zdot,
          rigidBodyForces, outcome, probe, clone, destroyed>>

registryVars == <<heap, deletes, m_generators, m_defaultGenerator, lastAdopted>>
vtVars == <<m_transitionVelocity, m_ooTransitionVelocity>>
cacheVars == <<forceCache, forceCacheValid, peCache, peCacheValid>>
auxVars == <<probe, clone, destroyed>>
NoClone == [m_generators |-> {}, m_defaultGenerator |-> -1]
systemVars == <<registryVars, vtVars, cacheVars, stage, contacts, z, zdot,
                rigidBodyForces, outcome>>
NoProbe == [fn |-> "none", args |-> <<>>, value |-> <<>>]

\* A failed assert() ends the process, and so does a crash.
halted == outcome[2] \in {"abort", "crash"}

(***************************************************************************)
(* The inputs the environment draws from.                                  *)
(***************************************************************************)
AtRest == IVec(0, 0, 0)
\* separating fast enough for the dissipative force to outweigh the elastic
Yanking == IVec(0, 0, -2)
\* approaching and slipping
Slipping == IVec(1, 0, 1)
VelPool == {AtRest, Yanking}

\* <<contact type, depth>> of a contact the tracker may report
GeomPool == {<<CircularPointTypeId, 0>>, <<CircularPointTypeId, 1>>,
             <<OtherTypeId, 1>>}

\* Only the velocities of surfaces that press on each other under a Hertz
\* contact are told apart.
VelsFor(geom) ==
    IF geom[1] = CircularPointTypeId /\ geom[2] > 0 THEN VelPool ELSE {AtRest}

Snapshots ==
    UNION {{[i \in 1..n |-> MkContact(i, g[i][1], g[i][2], v[i])] :
                <<g, v>> \in {gv \in [1..n -> GeomPool] \X [1..n -> VelPool] :
                                 \A i \in 1..n : gv[2][i] \in VelsFor(gv[1][i])}} :
           n \in 0..MaxContacts}

\* The same contacts (same geometry) at other velocities.
SameGeometry(cs) ==
    {s \in Snapshots :
        /\ Len(s) = Len(cs)
        /\ \A i \in 1..Len(cs) : [s[i] EXCEPT !.vel = cs[i].vel] = cs[i]}

\* What an uninitialised double may hold.
GarbageReals == {R(0), R(7)}
\* What the build makes of undefined or unchecked behaviour:
\*   null   a call through the null default generator: assert() ends the
\*          process; with NDEBUG the call goes through a null reference and
\*          crashes, or returns leaving a garbage ContactForce;
\*   vel    a velocity read from a State below Velocity stage: the stage
\*          check throws; compiled out, a stale velocity is handed out;
\*   junk   the value read from a double that was never written.
UBChoices == [null : {"abort", "crash", "garbage"},
              vel : {"throw", "stale"},
              stale : {Slipping, Yanking},
              junk : GarbageReals]

\* The classes of generator a caller may hand over, and their type ids.
GenKinds == {"HertzCircular", "User"}
getContactTypeId(kind) ==
    CASE kind = "HertzCircular" -> CircularPointTypeId
      [] kind = "User" -> UserTypeId

\* The bodies of the System; surface i is on body i.
Bodies == {1, 2, 3}
BodyOriginLocation(body) ==
    CASE body = 1 -> IVec(0, 0, -1)
      [] body = 2 -> IVec(0, 0, 1)
      [] body = 3 -> IVec(2, 1, 3)
getMobilizedBody(surf) == surf
ZeroForces == [b \in Bodies |-> <<Vec3Zero, Vec3Zero>>]

(***************************************************************************)
(* The generator registry.                                                 *)
(***************************************************************************)
\* m_generators.find(type): the entries with this key
MapFind(m, type) == {p \in m : p[1] = type}
\* std::map::insert: adds the pair unless the key is already there
MapInsert(m, type, g) == IF MapFind(m, type) = {} THEN m \cup {<<type, g>>} ELSE m

hasForceGenerator(type) == MapFind(m_generators, type) # {}
hasDefaultForceGenerator == m_defaultGenerator # NullGen

\* assert(m_defaultGenerator); return *m_defaultGenerator;  A NullGen result
\* stands for the failed assertion or, with NDEBUG, a null reference.
getDefaultForceGenerator == m_defaultGenerator

\* getForceGenerator preferring the default generator to the registered one.
getForceGenerator_defaultFirst(type) ==
    IF m_defaultGenerator # NullGen THEN m_defaultGenerator
    ELSE IF MapFind(m_generators, type) # {}
    THEN (CHOOSE e \in MapFind(m_generators, type) : TRUE)[2]
    ELSE NullGen

getForceGenerator(type) ==
    LET p == MapFind(m_generators, type)
    IN  IF p # {} THEN (CHOOSE e \in p : TRUE)[2] ELSE getDefaultForceGenerator

\* delete g, for each g of gs (delete of the null pointer does nothing)
Delete(d, gs) ==
    [g \in DOMAIN d |-> IF g \in gs /\ g # NullGen THEN d[g] + 1 ELSE d[g]]

\* The State framework's answer to invalidateSubsystemTopologyCache(): the
\* topology must be realized again, and nothing cached survives.
invalidateSubsystemTopologyCache ==
    [stage |-> StageEmpty, forceCacheValid |-> FALSE, peCacheValid |-> FALSE]

\* adoptForceGenerator that only inserts: std::map::insert keeps the entry
\* that is already there.
adoptForceGenerator_insertOnly(generator, type) ==
    [inv |-> invalidateSubsystemTopologyCache,
     m_generators |-> MapInsert(m_generators, type, generator),
     deletes |-> deletes,
     m_defaultGenerator |-> m_defaultGenerator]

\* adoptForceGenerator without the call of invalidateSubsystemTopologyCache().
adoptForceGenerator_keepCaches(generator, type) ==
    [inv |-> [stage |-> StageReport, forceCacheValid |-> TRUE,
              peCacheValid |-> TRUE],
     m_generators |->
         (m_generators \ MapFind(m_generators, type))
             \cup {<<type, generator>>},
     deletes |-> Delete(deletes, {e[2] : e \in MapFind(m_generators, type)}),
     m_defaultGenerator |-> m_defaultGenerator]

\* adoptForceGenerator(subsys, generator): the invalidation, the map and the
\* deletions it leaves.
adoptForceGenerator(generator, type) ==
    LET p == MapFind(m_generators, type)
    IN  [inv |-> invalidateSubsystemTopologyCache,
         m_generators |->
             IF p # {}
             THEN (m_generators \ p) \cup {<<type, generator>>}
             ELSE MapInsert(m_generators, type, generator),
         deletes |-> Delete(deletes, {e[2] : e \in p}),
         m_defaultGenerator |-> m_defaultGenerator]

\* adoptDefaultForceGenerator that ignores a null generator.
adoptDefaultForceGenerator_rejectNull(generator) ==
    [inv |-> invalidateSubsystemTopologyCache,
     m_generators |-> m_generators,
     deletes |-> IF generator = NullGen THEN deletes
                 ELSE Delete(deletes, {m_defaultGenerator}),
     m_defaultGenerator |->
         IF generator = NullGen THEN m_defaultGenerator ELSE generator]

\* adoptDefaultForceGenerator(subsys, generator); generator may be NullGen
adoptDefaultForceGenerator(generator) ==
    [inv |-> invalidateSubsystemTopologyCache,
     m_generators |-> m_generators,
     deletes |-> Delete(deletes, {m_defaultGenerator}),
     m_defaultGenerator |-> generator]

(***************************************************************************)
(* Calling a generator, and the two lazy cache entries.                    *)
(***************************************************************************)
\* A ContactForce that undefined behaviour left behind.
GarbageForce(contact) ==
    [m_contactId |-> contact.id,
     m_centerOfPressureInG |-> Vec3Zero,
     m_forceOnSurface2InG |-> <<Vec3Zero, IVec(7, 7, 7)>>,
     m_potentialEnergy |-> R(7),
     m_powerLoss |-> R(-7)]

\* ElasticFoundation::calcContactForce, for a mesh contact: a valid force
\* whose spatial force at the centre of pressure has a torque as well.
ElasticFoundation_calcContactForce(contact, contactForce) ==
    [contactForce EXCEPT
         !.m_contactId = contact.id,
         !.m_centerOfPressureInG = contact.origin,
         !.m_forceOnSurface2InG = <<IVec(1, 0, 2), IVec(0, 1, 3)>>,
         !.m_potentialEnergy = contact.depth,
         !.m_powerLoss = R(0)]

\* generator.calcContactForce(state, contact, V_GS1, V_GS2, force), where
\* generator is what getForceGenerator returned.  Through NullGen u.null
\* says what happens.  DoNothing clears the force.
Generator_calcContactForce(gen, contact, velOk, vel, u, force) ==
    IF gen = NullGen
    THEN CASE u.null = "abort" -> [force |-> force, err |-> "abort"]
           [] u.null = "crash" -> [force |-> force, err |-> "crash"]
           [] u.null = "garbage" ->
                  [force |-> GarbageForce(contact), err |-> "none"]
    ELSE CASE heap[gen] = "HertzCircular" ->
                  HertzCircular_calcContactForce(contact, velOk, vel,
                      m_transitionVelocity, m_ooTransitionVelocity, force)
           [] heap[gen] = "ElasticFoundation" ->
                  [force |-> ElasticFoundation_calcContactForce(contact, force),
                   err |-> "none"]
           [] heap[gen] = "DoNothing" ->
                  [force |-> ContactForce_clear(force), err |-> "none"]

\* The loop of ensureForceCacheValid from contact i on, forces being the
\* array so far: the force cache entry as the function leaves it, and how it
\* ended.  r is what the generator made of contact i; a failed assert() ends
\* the process before forces.push_back().
RECURSIVE ForceLoop(_, _, _)
\* The loop body putting a valid result in front of the earlier ones.
ForceLoopBody_prepend(i, forces, u, r) ==
    IF r.err = "abort"
    THEN [forceCache |-> forces, forceCacheValid |-> FALSE, err |-> r.err]
    ELSE IF r.err # "none"
    THEN [forceCache |-> Append(forces, r.force), forceCacheValid |-> FALSE,
          err |-> r.err]
    ELSE ForceLoop(i + 1,
             IF ContactForce_isValid(r.force)
             THEN <<r.force>> \o forces ELSE forces, u)

ForceLoopBody(i, forces, u, r) ==
    IF r.err = "abort"
    THEN [forceCache |-> forces, forceCacheValid |-> FALSE, err |-> r.err]
    ELSE IF r.err # "none"
    THEN [forceCache |-> Append(forces, r.force), forceCacheValid |-> FALSE,
          err |-> r.err]
    ELSE ForceLoop(i + 1,
             IF ContactForce_isValid(r.force)
             THEN Append(forces, r.force) ELSE forces, u)

ForceLoop(i, forces, u) ==
    IF i > Len(contacts)
    THEN [forceCache |-> forces, forceCacheValid |-> TRUE, err |-> "none"]
    ELSE ForceLoopBody(i, forces, u,
             Generator_calcContactForce(getForceGenerator(contacts[i].typeId),
                 contacts[i], TRUE, contacts[i].vel, u, DefaultContactForce))

\* ensureForceCacheValid without the stage check.
ensureForceCacheValid_unchecked(u) ==
    IF forceCacheValid
    THEN [forceCache |-> forceCache, forceCacheValid |-> TRUE, err |-> "none"]
    ELSE ForceLoop(1, <<>>, u)

\* ensureForceCacheValid building the cache whether or not it is valid.
ensureForceCacheValid_rebuild(u) ==
    IF stage < StageVelocity
    THEN [forceCache |-> forceCache, forceCacheValid |-> FALSE,
          err |-> "StageError"]
    ELSE ForceLoop(1, <<>>, u)

\* ensureForceCacheValid(state): the force cache entry it leaves, and how
\* it ended.
ensureForceCacheValid(u) ==
    IF forceCacheValid
    THEN [forceCache |-> forceCache, forceCacheValid |-> TRUE, err |-> "none"]
    ELSE IF stage < StageVelocity
    THEN [forceCache |-> forceCache, forceCacheValid |-> FALSE,
          err |-> "StageError"]
    ELSE ForceLoop(1, <<>>, u)

RECURSIVE SumPotentialEnergy(_, _)
SumPotentialEnergy(forces, i) ==
    IF i > Len(forces) THEN R(0)
    ELSE RAdd(forces[i].m_potentialEnergy, SumPotentialEnergy(forces, i + 1))

\* The power-loss loop assigning where the code accumulates.
SumPowerLoss_lastOnly(forces, i) ==
    IF Len(forces) = 0 THEN R(0) ELSE forces[Len(forces)].m_powerLoss

\* The loop of realizeSubsystemAccelerationImpl from cache entry i on.
RECURSIVE SumPowerLoss(_, _)
SumPowerLoss(forces, i) ==
    IF i > Len(forces) THEN R(0)
    ELSE RAdd(forces[i].m_powerLoss, SumPowerLoss(forces, i + 1))

\* Reading a double: one that was never written holds junk.
ReadReal(x, junk) == IF x = Unset THEN junk ELSE x

\* The Position-stage loop of ensurePotentialEnergyCacheValid from contact i
\* on, pe being the sum so far: both cache entries as the function leaves
\* them, and how it ended.  The State is below Velocity stage here, so u.vel
\* says what a velocity read does.
RECURSIVE PotentialEnergyLoop(_, _, _)
\* The loop body marking the entry valid although the generator failed.
PotentialEnergyLoopBody_markOnError(i, pe, u, r) ==
    IF r.err # "none"
    THEN [forceCache |-> forceCache, forceCacheValid |-> forceCacheValid,
          peCache |-> pe, peCacheValid |-> TRUE, err |-> r.err]
    ELSE PotentialEnergyLoop(i + 1,
             RAdd(pe, ReadReal(r.force.m_potentialEnergy, u.junk)), u)

PotentialEnergyLoopBody(i, pe, u, r) ==
    IF r.err # "none"
    THEN [forceCache |-> forceCache, forceCacheValid |-> forceCacheValid,
          peCache |-> pe, peCacheValid |-> FALSE, err |-> r.err]
    ELSE PotentialEnergyLoop(i + 1,
             RAdd(pe, ReadReal(r.force.m_potentialEnergy, u.junk)), u)

PotentialEnergyLoop(i, pe, u) ==
    IF i > Len(contacts)
    THEN [forceCache |-> forceCache, forceCacheValid |-> forceCacheValid,
          peCache |-> pe, peCacheValid |-> TRUE, err |-> "none"]
    ELSE PotentialEnergyLoopBody(i, pe, u,
             Generator_calcContactForce(getForceGenerator(contacts[i].typeId),
                 contacts[i], u.vel = "stale", u.stale, u,
                 DefaultContactForce))

\* The Velocity-stage branch of ensurePotentialEnergyCacheValid, f being
\* what ensureForceCacheValid left: the sum of the cached potential energies.
PotentialEnergyFromForces(f) ==
    [forceCache |-> f.forceCache,
     forceCacheValid |-> f.forceCacheValid,
     peCache |-> IF f.err = "none"
                 THEN SumPotentialEnergy(f.forceCache, 1) ELSE R(0),
     peCacheValid |-> f.err = "none",
     err |-> f.err]

\* ensurePotentialEnergyCacheValid without the stage check.
ensurePotentialEnergyCacheValid_unchecked(u) ==
    IF peCacheValid
    THEN [forceCache |-> forceCache, forceCacheValid |-> forceCacheValid,
          peCache |-> peCache, peCacheValid |-> TRUE, err |-> "none"]
    ELSE IF stage >= StageVelocity
    THEN PotentialEnergyFromForces(ensureForceCacheValid(u))
    ELSE PotentialEnergyLoop(1, R(0), u)

\* ensurePotentialEnergyCacheValid without the early return for an entry
\* that is valid.
ensurePotentialEnergyCacheValid_recompute(u) ==
    IF stage < StagePosition
    THEN [forceCache |-> forceCache, forceCacheValid |-> forceCacheValid,
          peCache |-> peCache, peCacheValid |-> FALSE, err |-> "StageError"]
    ELSE IF stage >= StageVelocity
    THEN PotentialEnergyFromForces(ensureForceCacheValid(u))
    ELSE PotentialEnergyLoop(1, R(0), u)

\* ensurePotentialEnergyCacheValid choosing its branch by the validity of
\* the force cache instead of the stage, and never building the force cache.
ensurePotentialEnergyCacheValid_byForceCache(u) ==
    IF peCacheValid
    THEN [forceCache |-> forceCache, forceCacheValid |-> forceCacheValid,
          peCache |-> peCache, peCacheValid |-> TRUE, err |-> "none"]
    ELSE IF stage < StagePosition
    THEN [forceCache |-> forceCache, forceCacheValid |-> forceCacheValid,
          peCache |-> peCache, peCacheValid |-> FALSE, err |-> "StageError"]
    ELSE IF forceCacheValid
    THEN PotentialEnergyFromForces(ensureForceCacheValid(u))
    ELSE PotentialEnergyLoop(1, R(0), u)

\* ensurePotentialEnergyCacheValid(state): both cache entries as it leaves
\* them, and how it ended.
ensurePotentialEnergyCacheValid(u) ==
    IF peCacheValid
    THEN [forceCache |-> forceCache, forceCacheValid |-> forceCacheValid,
          peCache |-> peCache, peCacheValid |-> TRUE, err |-> "none"]
    ELSE IF stage < StagePosition
    THEN [forceCache |-> forceCache, forceCacheValid |-> forceCacheValid,
          peCache |-> peCache, peCacheValid |-> FALSE, err |-> "StageError"]
    ELSE IF stage >= StageVelocity
    THEN PotentialEnergyFromForces(ensureForceCacheValid(u))
    ELSE PotentialEnergyLoop(1, R(0), u)

(***************************************************************************)
(* The State framework: stages and what a rollback invalidates.            *)
(***************************************************************************)
Min(a, b) == IF a < b THEN a ELSE b

\* Writing a state variable that stage g depends on takes the State back
\* below g.  The force cache entry depends on Velocity stage, the
\* potential-energy entry on Position stage, the body force array on
\* Dynamics stage and zdot on Acceleration stage.  No reader gets at what an
\* invalidated entry holds, and the model forgets it.
RollbackBelow(g) ==
    LET newStage == Min(stage, g - 1)
        forceKept == forceCacheValid /\ newStage >= StageVelocity
        peKept == peCacheValid /\ newStage >= StagePosition
    IN  /\ stage' = newStage
        /\ forceCacheValid' = forceKept
        /\ forceCache' = IF forceKept THEN forceCache ELSE <<>>
        /\ peCacheValid' = peKept
        /\ peCache' = IF peKept THEN peCache ELSE NaN
        /\ rigidBodyForces' = IF newStage >= StageDynamics
                              THEN rigidBodyForces ELSE ZeroForces
        /\ zdot' = IF newStage >= StageAcceleration THEN zdot ELSE R(0)

\* What an adopt call's invalidation (inv) does to the State.
Invalidate(inv) ==
    LET forceKept == forceCacheValid /\ inv.forceCacheValid
        peKept == peCacheValid /\ inv.peCacheValid
    IN  /\ stage' = Min(stage, inv.stage)
        /\ forceCacheValid' = forceKept
        /\ forceCache' = IF forceKept THEN forceCache ELSE <<>>
        /\ peCacheValid' = peKept
        /\ peCache' = IF peKept THEN peCache ELSE NaN
        /\ rigidBodyForces' = IF Min(stage, inv.stage) >= StageDynamics
                              THEN rigidBodyForces ELSE ZeroForces
        /\ zdot' = IF Min(stage, inv.stage) >= StageAcceleration
                   THEN zdot ELSE R(0)

\* contacts.getContactById(id)
getContactById(id) ==
    contacts[CHOOSE i \in 1..Len(contacts) : contacts[i].id = id]

SpatialAdd(a, b) == <<VAdd(a[1], b[1]), VAdd(a[2], b[2])>>

\* mobod.applyBodyForce(s, F, rigidBodyForces): F is added to the body's
\* entry of the array.
applyBodyForce(mobod, F, bodyForces) ==
    [bodyForces EXCEPT ![mobod] = SpatialAdd(bodyForces[mobod], F)]

\* F2: the force on surface 2 at the centre of pressure, shifted to the
\* origin of body 2 (r2 from that origin to the centre of pressure).
F2AtOrigin(F2cop, r2) ==
    <<VAdd(F2cop[1], VCross(r2, F2cop[2])), F2cop[2]>>

\* F1 with the moment of the force left out.
F1AtOrigin_unshifted(F2cop, r1) ==
    <<VNeg(F2cop[1]), VNeg(F2cop[2])>>

\* F1: the reaction on surface 1, shifted to the origin of body 1.
F1AtOrigin(F2cop, r1) ==
    <<VAdd(VNeg(F2cop[1]), VCross(r1, VNeg(F2cop[2]))), VNeg(F2cop[2])>>

\* The loop body with the array emptied before the forces are applied.
ApplyContactForce_fromZero(force, contact, bodyForces) ==
    applyBodyForce(getMobilizedBody(contact.surf2),
        F2AtOrigin(force.m_forceOnSurface2InG,
            VSub(force.m_centerOfPressureInG,
                 BodyOriginLocation(getMobilizedBody(contact.surf2)))),
        applyBodyForce(getMobilizedBody(contact.surf1),
            F1AtOrigin(force.m_forceOnSurface2InG,
                VSub(force.m_centerOfPressureInG,
                     BodyOriginLocation(getMobilizedBody(contact.surf1)))),
            ZeroForces))

\* The body of the loop of realizeSubsystemDynamicsImpl for one cache entry
\* and its contact: F1 is applied to body 1, then F2 to body 2.
ApplyContactForce(force, contact, bodyForces) ==
    applyBodyForce(getMobilizedBody(contact.surf2),
        F2AtOrigin(force.m_forceOnSurface2InG,
            VSub(force.m_centerOfPressureInG,
                 BodyOriginLocation(getMobilizedBody(contact.surf2)))),
        applyBodyForce(getMobilizedBody(contact.surf1),
            F1AtOrigin(force.m_forceOnSurface2InG,
                VSub(force.m_centerOfPressureInG,
                     BodyOriginLocation(getMobilizedBody(contact.surf1)))),
            bodyForces))

\* The loop of realizeSubsystemDynamicsImpl from cache entry i on: the body
\* force array with the contact forces added.
RECURSIVE ApplyContactForces(_, _, _)
ApplyContactForces(forces, i, bodyForces) ==
    IF i > Len(forces) THEN bodyForces
    ELSE ApplyContactForces(forces, i + 1,
             ApplyContactForce(forces[i],
                 getContactById(forces[i].m_contactId), bodyForces))

(***************************************************************************)
(* The operations.                                                         *)
(***************************************************************************)
Ok == <<"", "none">>
Ended(op, err) == IF err = "none" THEN Ok ELSE <<op, err>>

Init ==
    \* CompliantContactSubsystem's constructor adopts a HertzCircular, an
    \* ElasticFoundation and, as the default, a DoNothing generator.
    /\ heap = <<"HertzCircular", "ElasticFoundation", "DoNothing">>
    /\ deletes = [g \in Gens |-> 0]
    /\ m_generators = {<<CircularPointTypeId, 1>>, <<TriangleMeshTypeId, 2>>}
    /\ m_defaultGenerator = 3
    /\ lastAdopted = [t \in TypeIds |->
                         IF t = CircularPointTypeId THEN 1
                         ELSE IF t = TriangleMeshTypeId THEN 2 ELSE NullGen]
    /\ m_transitionVelocity = <<1, 100>>
    /\ m_ooTransitionVelocity = RDiv(R(1), <<1, 100>>)
    /\ stage = StageEmpty
    /\ contacts = <<>>
    /\ forceCache = <<>>
    /\ forceCacheValid = FALSE
    /\ peCache = NaN
    /\ peCacheValid = FALSE
    /\ z = R(0)
    /\ zdot = R(0)
    /\ rigidBodyForces = ZeroForces
    /\ outcome = Ok
    /\ probe = NoProbe
    /\ clone = NoClone
    /\ destroyed = {}

\* adoptForceGenerator(new <kind>)
AdoptForceGenerator(kind) ==
    /\ ~halted
    /\ UNCHANGED auxVars
    /\ Len(heap) < MaxGens
    /\ LET generator == Len(heap) + 1
           a == adoptForceGenerator(generator, getContactTypeId(kind))
       IN  /\ heap' = Append(heap, kind)
           /\ deletes' = a.deletes
           /\ m_generators' = a.m_generators
           /\ m_defaultGenerator' = a.m_defaultGenerator
           /\ lastAdopted' =
                  [lastAdopted EXCEPT ![getContactTypeId(kind)] = generator]
           /\ Invalidate(a.inv)
    /\ outcome' = Ok
    /\ UNCHANGED <<vtVars, contacts, z>>

\* adoptDefaultForceGenerator(new DoNothing), adoptDefaultForceGenerator(0)
AdoptDefaultForceGenerator(isNull) ==
    /\ ~halted
    /\ UNCHANGED auxVars
    /\ isNull \/ Len(heap) < MaxGens
    /\ LET generator == IF isNull THEN NullGen ELSE Len(heap) + 1
           a == adoptDefaultForceGenerator(generator)
       IN  /\ heap' = IF isNull THEN heap ELSE Append(heap, "DoNothing")
           /\ deletes' = a.deletes
           /\ m_generators' = a.m_generators
           /\ m_defaultGenerator' = a.m_defaultGenerator
           /\ Invalidate(a.inv)
    /\ outcome' = Ok
    /\ UNCHANGED <<lastAdopted, vtVars, contacts, z>>

\* realizeSubsystemTopologyImpl: allocates the two lazy cache entries (not
\* valid; an empty array and NaN) and the state variable z, initially 0.
realizeSubsystemTopologyImpl ==
    [forceCache |-> <<>>, forceCacheValid |-> FALSE,
     peCache |-> NaN, peCacheValid |-> FALSE, z |-> R(0)]

\* System::realizeTopology() hands out a new default State.
RealizeTopology ==
    /\ ~halted
    /\ UNCHANGED auxVars
    /\ stage = StageEmpty
    /\ LET t == realizeSubsystemTopologyImpl
       IN  /\ forceCache' = t.forceCache
           /\ forceCacheValid' = t.forceCacheValid
           /\ peCache' = t.peCache
           /\ peCacheValid' = t.peCacheValid
           /\ z' = t.z
    /\ stage' = StageTopology
    /\ contacts' = <<>>
    /\ zdot' = R(0)
    /\ rigidBodyForces' = ZeroForces
    /\ outcome' = Ok
    /\ UNCHANGED <<registryVars, vtVars>>

\* realizeSubsystem{Model,Instance,Time,Position,Velocity}Impl do nothing.
\* System::realize(state, Stage::Time) takes a new State through Model,
\* Instance and Time stage at once; then one stage at a time.
RealizeNoOp ==
    /\ ~halted
    /\ UNCHANGED auxVars
    /\ stage \in {StageTopology, StageTime, StagePosition}
    /\ stage' = IF stage = StageTopology THEN StageTime ELSE stage + 1
    /\ outcome' = Ok
    /\ UNCHANGED <<registryVars, vtVars, contacts, cacheVars, z, zdot,
                   rigidBodyForces>>

\* realizeSubsystemDynamicsImpl, which the System calls on a State at
\* Velocity stage.
RealizeDynamics(u) ==
    /\ ~halted
    /\ UNCHANGED auxVars
    /\ stage = StageVelocity
    /\ LET f == ensureForceCacheValid(u)
       IN  /\ forceCache' = f.forceCache
           /\ forceCacheValid' = f.forceCacheValid
           /\ outcome' = Ended("realizeDynamics", f.err)
           /\ IF f.err = "none"
              THEN /\ rigidBodyForces' =
                          ApplyContactForces(f.forceCache, 1, rigidBodyForces)
                   /\ stage' = StageDynamics
              ELSE UNCHANGED <<rigidBodyForces, stage>>
    /\ UNCHANGED <<registryVars, vtVars, contacts, peCache, peCacheValid, z,
                   zdot>>

\* realizeSubsystemAccelerationImpl, called on a State at Dynamics stage.
RealizeAcceleration(u) ==
    /\ ~halted
    /\ UNCHANGED auxVars
    /\ stage = StageDynamics
    /\ LET f == ensureForceCacheValid(u)
       IN  /\ forceCache' = f.forceCache
           /\ forceCacheValid' = f.forceCacheValid
           /\ outcome' = Ended("realizeAcceleration", f.err)
           /\ IF f.err = "none"
              THEN /\ zdot' = SumPowerLoss(f.forceCache, 1)
                   /\ stage' = StageAcceleration
              ELSE UNCHANGED <<zdot, stage>>
    /\ UNCHANGED <<registryVars, vtVars, contacts, peCache, peCacheValid, z,
                   rigidBodyForces>>

\* ensureForceCacheValid(state) on a State at any stage (the cache entries
\* exist from Topology stage on).
EnsureForceCacheValid(u) ==
    /\ ~halted
    /\ UNCHANGED auxVars
    /\ stage >= StageTopology
    /\ LET f == ensureForceCacheValid(u)
       IN  /\ forceCache' = f.forceCache
           /\ forceCacheValid' = f.forceCacheValid
           /\ outcome' = Ended("ensureForceCacheValid", f.err)
    /\ UNCHANGED <<registryVars, vtVars, stage, contacts, peCache,
                   peCacheValid, z, zdot, rigidBodyForces>>

\* calcPotentialEnergy(state): ensurePotentialEnergyCacheValid, and the
\* value of the cache entry is returned.
CalcPotentialEnergy(u) ==
    /\ ~halted
    /\ UNCHANGED auxVars
    /\ stage >= StageTopology
    /\ LET e == ensurePotentialEnergyCacheValid(u)
       IN  /\ forceCache' = e.forceCache
           /\ forceCacheValid' = e.forceCacheValid
           /\ peCache' = e.peCache
           /\ peCacheValid' = e.peCacheValid
           /\ outcome' = Ended("calcPotentialEnergy", e.err)
    /\ UNCHANGED <<registryVars, vtVars, stage, contacts, z, zdot,
                   rigidBodyForces>>

\* The caller moves the bodies (updQ): the State falls back below Position
\* stage and the tracker will report other contacts.
SetQ(snapshot) ==
    /\ ~halted
    /\ UNCHANGED auxVars
    /\ stage >= StageModel
    /\ contacts' = snapshot
    /\ RollbackBelow(StagePosition)
    /\ outcome' = Ok
    /\ UNCHANGED <<registryVars, vtVars, z>>

\* The caller changes the velocities (updU): the State falls back below
\* Velocity stage; the contacts keep their geometry.
SetU(snapshot) ==
    /\ ~halted
    /\ UNCHANGED auxVars
    /\ stage >= StageModel
    /\ contacts' = snapshot
    /\ RollbackBelow(StageVelocity)
    /\ outcome' = Ok
    /\ UNCHANGED <<registryVars, vtVars, z>>

\* getDissipatedEnergy(state): getDissipatedEnergyVar
getDissipatedEnergy == z

\* setDissipatedEnergy demanding energy > 0.
setDissipatedEnergy_positiveOnly(energy) ==
    IF RLt(R(0), energy)
    THEN [z |-> energy, err |-> "none"]
    ELSE [z |-> z, err |-> "ErrChk"]

\* setDissipatedEnergy(state, energy): what z holds afterwards, and how the
\* call ended.
setDissipatedEnergy(energy) ==
    IF RLe(R(0), energy)
    THEN [z |-> energy, err |-> "none"]
    ELSE [z |-> z, err |-> "ErrChk"]

\* Writing z (updZ) takes the State back below Dynamics stage.
SetDissipatedEnergy(energy) ==
    /\ ~halted
    /\ UNCHANGED auxVars
    /\ stage >= StageModel
    /\ LET r == setDissipatedEnergy(energy)
       IN  /\ z' = r.z
           /\ outcome' = Ended("setDissipatedEnergy", r.err)
           /\ IF r.err = "none"
              THEN RollbackBelow(StageDynamics)
              ELSE UNCHANGED <<stage, cacheVars, rigidBodyForces, zdot>>
    /\ UNCHANGED <<registryVars, vtVars, contacts>>

EnergyInputs == {R(-1), R(0), R(5)}

\* CompliantContactSubsystemImpl::setTransitionVelocity(vt)
setTransitionVelocityImpl(vt) ==
    [m_transitionVelocity |-> vt, m_ooTransitionVelocity |-> RDiv(R(1), vt)]

\* The values kept when the facade's check rejects vt.
KeepTransitionVelocity ==
    [m_transitionVelocity |-> m_transitionVelocity,
     m_ooTransitionVelocity |-> m_ooTransitionVelocity]

\* CompliantContactSubsystem::setTransitionVelocity accepting vt >= 0.
setTransitionVelocity_acceptZero(vt) ==
    IF RLe(R(0), vt) /\ vt # R(0)
    THEN [v |-> setTransitionVelocityImpl(vt), err |-> "none"]
    ELSE IF vt = R(0)
    THEN [v |-> [m_transitionVelocity |-> vt, m_ooTransitionVelocity |-> NaN],
          err |-> "none"]
    ELSE [v |-> KeepTransitionVelocity, err |-> "ErrChk"]

\* CompliantContactSubsystem::setTransitionVelocity(vt): the two members
\* afterwards, and how the call ended.
setTransitionVelocity(vt) ==
    IF RLt(R(0), vt)
    THEN [v |-> setTransitionVelocityImpl(vt), err |-> "none"]
    ELSE [v |-> KeepTransitionVelocity, err |-> "ErrChk"]

\* setTransitionVelocity writes members of the subsystem, not a State: no
\* stage and no cache entry is touched.
SetTransitionVelocity(vt) ==
    /\ ~halted
    /\ UNCHANGED auxVars
    /\ m_transitionVelocity' = setTransitionVelocity(vt).v.m_transitionVelocity
    /\ m_ooTransitionVelocity' =
           setTransitionVelocity(vt).v.m_ooTransitionVelocity
    /\ outcome' = Ended("setTransitionVelocity", setTransitionVelocity(vt).err)
    /\ UNCHANGED <<registryVars, stage, contacts, cacheVars, z, zdot,
                   rigidBodyForces>>

VtInputs == {R(-1), R(0), <<1, 100>>, R(1)}

\* Of UBChoices, those that can make a difference in the State at hand: a
\* null generator is only called when a contact's type has no generator and
\* the default is null; a stale velocity or a never written double is only
\* read by the Position-stage loop of ensurePotentialEnergyCacheValid.
NullReached ==
    \E i \in 1..Len(contacts) :
        getForceGenerator(contacts[i].typeId) = NullGen
ForceChoices ==
    {u \in UBChoices : /\ u.null = "abort" \/ NullReached
                       /\ u.vel = "throw"
                       /\ u.stale = Slipping
                       /\ u.junk = R(0)}
PotentialEnergyChoices ==
    IF stage = StagePosition /\ ~peCacheValid
    THEN {u \in UBChoices : /\ u.null = "abort" \/ NullReached
                            /\ u.vel = "stale" \/ u.stale = Slipping}
    ELSE ForceChoices

Next ==
    \/ \E kind \in GenKinds : AdoptForceGenerator(kind)
    \/ \E isNull \in BOOLEAN : AdoptDefaultForceGenerator(isNull)
    \/ RealizeTopology
    \/ RealizeNoOp
    \/ \E u \in ForceChoices : RealizeDynamics(u)
    \/ \E u \in ForceChoices : RealizeAcceleration(u)
    \/ \E u \in ForceChoices : EnsureForceCacheValid(u)
    \/ \E u \in PotentialEnergyChoices : CalcPotentialEnergy(u)
    \/ \E snapshot \in Snapshots : SetQ(snapshot)
    \/ \E snapshot \in SameGeometry(contacts) : SetU(snapshot)
    \/ \E energy \in EnergyInputs : SetDissipatedEnergy(energy)

Spec == Init /\ [][Next]_vars

(***************************************************************************)
(* A second specification: the force computations over a wider range of    *)
(* contacts.  A State at Time stage whose positions and velocities have    *)
(* been set is realized stage by stage, queried, and the transition        *)
(* velocity is changed in between; the registry is the constructor's.      *)
(***************************************************************************)
\* separating slowly: the elastic force still outweighs the dissipative
Separating == <<R(0), R(0), <<-1, 3>>>>
ContactVels ==
    {AtRest, Yanking, Separating, Slipping, IVec(3, 4, 1), IVec(0, 2, 0),
     IVec(4, 0, 2)}
SurfacePairs == {<<1, 2>>, <<2, 3>>}

\* The contacts a snapshot may hold at position id.
ContactsAt(id) ==
    {MkContactOn(id, CircularPointTypeId, 0, AtRest, sp[1], sp[2]) :
         sp \in SurfacePairs}
    \cup {MkContactOn(id, CircularPointTypeId, d, v, sp[1], sp[2]) :
              d \in {1, 4}, v \in ContactVels, sp \in SurfacePairs}
    \cup {MkContactOn(id, OtherTypeId, 1, AtRest, 1, 2),
          MkContactOn(id, TriangleMeshTypeId, 1, AtRest, 1, 2)}

\* The contacts that come second in a snapshot of two.
SecondContacts ==
    {MkContactOn(2, CircularPointTypeId, 0, AtRest, 1, 2),
     MkContactOn(2, CircularPointTypeId, 1, Slipping, 2, 3),
     MkContactOn(2, CircularPointTypeId, 1, Yanking, 1, 2)}

ContactSnapshots ==
    {<<c>> : c \in ContactsAt(1)}
    \cup {<<c, d>> : c \in ContactsAt(1), d \in SecondContacts}

\* What the System's other force subsystems have added to the body force
\* array when this subsystem's dynamics pass runs.
OtherSubsystemForces ==
    [b \in Bodies |-> <<IVec(b, 0, 1), IVec(1, b, 0)>>]

\* Another force subsystem's dynamics pass, run before this one's.
OtherForces ==
    /\ UNCHANGED auxVars
    /\ stage = StageVelocity
    /\ rigidBodyForces = ZeroForces
    /\ rigidBodyForces' = OtherSubsystemForces
    /\ outcome' = Ok
    /\ UNCHANGED <<registryVars, vtVars, stage, contacts, cacheVars, z, zdot>>

InitContact ==
    /\ heap = <<"HertzCircular", "ElasticFoundation", "DoNothing">>
    /\ deletes = [g \in Gens |-> 0]
    /\ m_generators = {<<CircularPointTypeId, 1>>, <<TriangleMeshTypeId, 2>>}
    /\ m_defaultGenerator = 3
    /\ lastAdopted = [t \in TypeIds |->
                         IF t = CircularPointTypeId THEN 1
                         ELSE IF t = TriangleMeshTypeId THEN 2 ELSE NullGen]
    /\ m_transitionVelocity = <<1, 100>>
    /\ m_ooTransitionVelocity = RDiv(R(1), <<1, 100>>)
    /\ stage = StageTime
    /\ contacts \in ContactSnapshots
    /\ forceCache = <<>>
    /\ forceCacheValid = FALSE
    /\ peCache = NaN
    /\ peCacheValid = FALSE
    /\ z = R(0)
    /\ zdot = R(0)
    /\ rigidBodyForces = ZeroForces
    /\ outcome = Ok
    /\ probe = NoProbe
    /\ clone = NoClone
    /\ destroyed = {}

NextContact ==
    \/ RealizeNoOp
    \/ OtherForces
    \/ \E u \in ForceChoices : RealizeDynamics(u)
    \/ \E u \in ForceChoices : RealizeAcceleration(u)
    \/ \E u \in ForceChoices : EnsureForceCacheValid(u)
    \/ \E u \in PotentialEnergyChoices : CalcPotentialEnergy(u)
    \/ \E vt \in VtInputs : SetTransitionVelocity(vt)

SpecContact == InitContact /\ [][NextContact]_vars

\* ---------------------------------------------------------------------
\* Fourth specification: the friction and combining functions evaluated on
\* their own, for arguments drawn from small pools.

CoefficientPool == {R(0), <<1, 2>>, R(1), R(2)}
SlipPool == {R(0), <<1, 2>>, R(1), R(2), R(3), <<7, 2>>, R(4), R(5)}

\* The closed interval of v over which the formula of a segment is used, or
\* which it borders.
SegmentLow(segment) ==
    CASE segment = 1 -> R(0) [] segment = 2 -> R(1)
      [] segment = 3 -> R(3) [] segment = 4 -> R(4)
SegmentHigh(segment) ==
    CASE segment = 1 -> R(1) [] segment = 2 -> R(3)
      [] segment = 3 -> R(4) [] segment = 4 -> R(5)

\* stribeck(us, ud, uv, v)
EvalStribeck(us, ud, uv, v) ==
    /\ RLe(ud, us)
    /\ probe' = [fn |-> "stribeck", args |-> <<us, ud, uv, v>>,
                 value |-> stribeck(us, ud, uv, v)]
    /\ UNCHANGED <<systemVars, clone, destroyed>>

\* One segment's formula, evaluated on its interval with both ends.
EvalSegment(segment, us, ud, uv, v) ==
    /\ RLe(ud, us)
    /\ RLe(SegmentLow(segment), v)
    /\ RLe(v, SegmentHigh(segment))
    /\ probe' = [fn |-> "segment", args |-> <<segment, us, ud, uv, v>>,
                 value |-> stribeckSegment(segment, us, ud, uv, v)]
    /\ UNCHANGED <<systemVars, clone, destroyed>>

StiffnessPool == {<<1, 2>>, R(1), R(2), R(8)}

\* The friction coefficients of two materials combined.
EvalCombineFriction(u1, u2) ==
    /\ probe' = [fn |-> "CombineFriction", args |-> <<u1, u2>>,
                 value |-> CombineFriction(u1, u2)]
    /\ UNCHANGED <<systemVars, clone, destroyed>>

\* The stiffnesses of two materials combined.
EvalCombineStiffness(k1, k2) ==
    /\ probe' = [fn |-> "CombineStiffness", args |-> <<k1, k2>>,
                 value |-> CombineStiffness(k1, k2)]
    /\ UNCHANGED <<systemVars, clone, destroyed>>

\* Velocities of body 1 relative to body 2 with no slip, with a slip at the
\* threshold SignificantReal = 1/1000 and with a slip of twice that.
NearZeroSlips == {R(0), <<1, 1000>>, <<1, 500>>}
PenetrationRates == {R(0), R(1), <<-1, 3>>}

\* HertzCircular::calcContactForce below its depth test, for a contact of
\* depth 1 between surfaces 1 and 2 whose bodies move at vel relative to
\* each other, with the transition velocity of the constructor.
EvalHertzForce(vel) ==
    /\ probe' = [fn |-> "HertzForce", args |-> <<vel>>,
                 value |-> HertzForce(
                     MkContact(1, CircularPointTypeId, 1, vel), vel,
                     <<1, 100>>, R(100), DefaultContactForce)]
    /\ UNCHANGED <<systemVars, clone, destroyed>>

\* HertzCircular::calcContactForce called as the Position-stage loop calls
\* it, with V_GS1 = V_GS2 = 0, for a contact of depth 1 between surfaces 1
\* and 2, on a State whose velocity reads succeed or not (velOk) and give
\* stateVel for body 1 relative to body 2.
EvalCalcContactForce(velOk, stateVel) ==
    /\ probe' = [fn |-> "calcContactForce", args |-> <<velOk, stateVel>>,
                 value |-> HertzCircular_calcContactForce(
                     MkContact(1, CircularPointTypeId, 1, stateVel),
                     velOk, stateVel, <<1, 100>>, R(100),
                     DefaultContactForce)]
    /\ UNCHANGED <<systemVars, clone, destroyed>>

NextFunctions ==
    \/ \E velOk \in BOOLEAN, stateVel \in {AtRest, Yanking, Slipping} :
           EvalCalcContactForce(velOk, stateVel)
    \/ \E slip \in NearZeroSlips, xdot \in PenetrationRates :
           EvalHertzForce(<<slip, R(0), xdot>>)
    \/ \E u1, u2 \in CoefficientPool : EvalCombineFriction(u1, u2)
    \/ \E k1, k2 \in StiffnessPool : EvalCombineStiffness(k1, k2)
    \/ \E us, ud, uv \in CoefficientPool, v \in SlipPool :
           EvalStribeck(us, ud, uv, v)
    \/ \E segment \in 1..4, us, ud, uv \in CoefficientPool, v \in SlipPool :
           EvalSegment(segment, us, ud, uv, v)

SpecFunctions == Init /\ [][NextFunctions]_vars

\* ---------------------------------------------------------------------
\* Fifth specification: the lifetime of the generators over adopting,
\* cloning and destroying implementations.

ImplAlive == "impl" \notin destroyed
CloneAlive == clone # NoClone /\ "clone" \notin destroyed

\* The generators a registry (map and default slot) points to.
RegistryGens(generators, defaultGenerator) ==
    {e[2] : e \in generators} \cup ({defaultGenerator} \ {NullGen})

\* adoptForceGenerator(g) for a generator object g that is already the
\* occupant of its type's entry, and that the caller still holds alive.
ReadoptForceGenerator(e) ==
    /\ ~halted
    /\ ImplAlive
    /\ e \in m_generators
    /\ deletes[e[2]] = 0
    /\ LET a == adoptForceGenerator(e[2], e[1])
       IN  /\ deletes' = a.deletes
           /\ m_generators' = a.m_generators
           /\ m_defaultGenerator' = a.m_defaultGenerator
           /\ Invalidate(a.inv)
    /\ outcome' = Ok
    /\ UNCHANGED <<heap, lastAdopted, vtVars, contacts, z, auxVars>>

\* cloneImpl(): new CompliantContactSubsystemImpl(*this), the implicit copy
\* constructor, which copies the map and the default pointer as they are.
CloneImpl ==
    /\ ~halted
    /\ ImplAlive
    /\ clone = NoClone
    /\ clone' = [m_generators |-> m_generators,
                 m_defaultGenerator |-> m_defaultGenerator]
    /\ outcome' = Ok
    /\ UNCHANGED <<registryVars, vtVars, stage, contacts, cacheVars, z, zdot,
                   rigidBodyForces, probe, destroyed>>

\* ~CompliantContactSubsystemImpl(): what it deletes, given the members.
Destructor(generators, defaultGenerator) ==
    Delete(Delete(deletes, {defaultGenerator}), {e[2] : e \in generators})

\* The implementation is destroyed.
DestroyImpl ==
    /\ ~halted
    /\ ImplAlive
    /\ deletes' = Destructor(m_generators, m_defaultGenerator)
    /\ destroyed' = destroyed \cup {"impl"}
    /\ outcome' = Ok
    /\ UNCHANGED <<heap, m_generators, m_defaultGenerator, lastAdopted, vtVars,
                   stage, contacts, cacheVars, z, zdot, rigidBodyForces,
                   probe, clone>>

\* The clone is destroyed.
DestroyClone ==
    /\ ~halted
    /\ CloneAlive
    /\ deletes' = Destructor(clone.m_generators, clone.m_defaultGenerator)
    /\ destroyed' = destroyed \cup {"clone"}
    /\ outcome' = Ok
    /\ UNCHANGED <<heap, m_generators, m_defaultGenerator, lastAdopted, vtVars,
                   stage, contacts, cacheVars, z, zdot, rigidBodyForces,
                   probe, clone>>

NextLifetime ==
    \/ ImplAlive /\ \E kind \in GenKinds : AdoptForceGenerator(kind)
    \/ ImplAlive /\ \E isNull \in BOOLEAN : AdoptDefaultForceGenerator(isNull)
    \/ \E e \in m_generators : ReadoptForceGenerator(e)
    \/ ImplAlive /\ RealizeTopology
    \/ ImplAlive /\ RealizeNoOp
    \/ CloneImpl
    \/ DestroyImpl
    \/ DestroyClone

SpecLifetime == Init /\ [][NextLifetime]_vars

\* ---------------------------------------------------------------------
\* Third specification: the dissipated energy over integration steps.

\* The integrator is followed while z is below this.
MaxDissipated == 1

\* An integrator step from a State realized to Acceleration stage: z
\* advances by zdot over a unit step, and the advanced State, realized to
\* Time stage again, holds nothing that was computed from the old one.
\* The bodies are taken to stay where they are and to move as before.
Integrate ==
    /\ ~halted
    /\ UNCHANGED auxVars
    /\ stage = StageAcceleration
    /\ RLt(z, R(MaxDissipated))
    /\ z' = RAdd(z, zdot)
    /\ RollbackBelow(StagePosition)
    /\ outcome' = Ok
    /\ UNCHANGED <<registryVars, vtVars, contacts>>

InitEnergy ==
    /\ InitContact
    /\ \A i \in 1..Len(contacts) : contacts[i].surf1 = 1

NextEnergy ==
    \/ RealizeNoOp
    \/ \E u \in ForceChoices : RealizeDynamics(u)
    \/ \E u \in ForceChoices : RealizeAcceleration(u)
    \/ \E u \in ForceChoices : EnsureForceCacheValid(u)
    \/ \E u \in PotentialEnergyChoices : CalcPotentialEnergy(u)
    \/ \E vt \in VtInputs : SetTransitionVelocity(vt)
    \/ Integrate

SpecEnergy == InitEnergy /\ [][NextEnergy]_vars

(***************************************************************************)
(* The properties.                                                         *)
(***************************************************************************)
\* The generator that handles contact i is a HertzCircular.
HandledByHertz(i) ==
    /\ getForceGenerator(contacts[i].typeId) # NullGen
    /\ heap[getForceGenerator(contacts[i].typeId)] = "HertzCircular"

\* The force cache holds an entry for contact i.
InForceCache(i) ==
    \E j \in 1..Len(forceCache) : forceCache[j].m_contactId = contacts[i].id

AnyEnsureForceCacheValid == \E u \in UBChoices : EnsureForceCacheValid(u)
AnyCalcPotentialEnergy == \E u \in UBChoices : CalcPotentialEnergy(u)
AnyRealizeDynamics == \E u \in UBChoices : RealizeDynamics(u)
AnyRealizeAcceleration == \E u \in UBChoices : RealizeAcceleration(u)
AnyAdoptForceGenerator == \E kind \in GenKinds : AdoptForceGenerator(kind)
AnyAdoptDefaultForceGenerator ==
    \E isNull \in BOOLEAN : AdoptDefaultForceGenerator(isNull)

\* C1: for every active contact with depth <= 0 that the Hertz generator
\* handles, calcContactForce returns an invalid (cleared) ContactForce,
\* whatever the velocities and whether or not they can be read, and once
\* ensureForceCacheValid has made the force cache valid the cache holds no
\* entry for that contact.
C1_NoForceWithoutDepth ==
    \A i \in 1..Len(contacts) :
        (HandledByHertz(i) /\ RLe(contacts[i].depth, R(0))) =>
            /\ \A velOk \in BOOLEAN :
               \A vel \in VelPool \cup {Slipping} :
                   LET r == HertzCircular_calcContactForce(contacts[i], velOk,
                                vel, m_transitionVelocity,
                                m_ooTransitionVelocity, DefaultContactForce)
                   IN  r.err = "none" /\ ~ContactForce_isValid(r.force)
            /\ forceCacheValid => ~InForceCache(i)

\* A valid force cache built for two contacts, of which the Hertz generator
\* dropped the one without depth and kept the other.
C1_Witness ==
    /\ forceCacheValid
    /\ Len(contacts) = 2
    /\ \E i \in 1..2 :
           HandledByHertz(i) /\ contacts[i].depth = R(0) /\ ~InForceCache(i)
    /\ \E i \in 1..2 :
           HandledByHertz(i) /\ contacts[i].depth = R(1) /\ InForceCache(i)

\* C2: for each of the two caches, a call of ensure...Valid on an entry that
\* is not valid, in a State below the entry's stage (Velocity for the force
\* cache, Position for the potential energy), ends in a stage error and
\* leaves the entry not valid and its contents as they were.
C2_Step ==
    /\ (~forceCacheValid /\ stage < StageVelocity /\ AnyEnsureForceCacheValid)
           => /\ outcome' = <<"ensureForceCacheValid", "StageError">>
              /\ ~forceCacheValid'
              /\ forceCache' = forceCache
    /\ (~peCacheValid /\ stage < StagePosition /\ AnyCalcPotentialEnergy)
           => /\ outcome' = <<"calcPotentialEnergy", "StageError">>
              /\ ~peCacheValid'
              /\ peCache' = peCache
              /\ UNCHANGED <<forceCache, forceCacheValid>>
C2_StageErrorLeavesEntry == [][C2_Step]_vars

\* calcPotentialEnergy has just failed on a State below Position stage that
\* has contacts.
C2_Witness ==
    /\ outcome = <<"calcPotentialEnergy", "StageError">>
    /\ stage < StagePosition
    /\ ~peCacheValid
    /\ contacts # <<>>

\* C3: in every reachable state the force cache is valid only if the State
\* is at Velocity stage or above, and the potential-energy cache is valid
\* only if the State is at Position stage or above.
C3_ValidOnlyAtStage ==
    /\ forceCacheValid => stage >= StageVelocity
    /\ peCacheValid => stage >= StagePosition

\* Both entries were valid for a contact that is being yanked apart (potential
\* energy 0, which only the true velocity gives) and the State was then taken
\* back below Velocity stage: the potential energy is still valid at Position
\* stage, the forces are not.
C3_Witness ==
    /\ stage = StagePosition
    /\ peCacheValid
    /\ ~forceCacheValid
    /\ Len(contacts) = 1
    /\ HandledByHertz(1)
    /\ contacts[1].depth = R(1)
    /\ contacts[1].vel = Yanking
    /\ peCache = R(0)

\* C4: once an entry is valid, a further query (ensureForceCacheValid,
\* calcPotentialEnergy, the dynamics pass, the acceleration pass) on the same
\* State succeeds and changes neither the contents nor the validity of
\* either cache entry.
C4_Step ==
    /\ (forceCacheValid /\ AnyEnsureForceCacheValid)
           => UNCHANGED cacheVars /\ outcome' = Ok
    /\ (peCacheValid /\ AnyCalcPotentialEnergy)
           => UNCHANGED cacheVars /\ outcome' = Ok
    /\ (forceCacheValid /\ (AnyRealizeDynamics \/ AnyRealizeAcceleration))
           => UNCHANGED cacheVars /\ outcome' = Ok
C4_RepeatedQueryChangesNothing == [][C4_Step]_vars

\* A State at Acceleration stage: the dynamics pass and the acceleration
\* pass have both read the force cache, which holds two forces, and
\* calcPotentialEnergy has been answered.
C4_Witness ==
    /\ stage = StageAcceleration
    /\ forceCacheValid
    /\ peCacheValid
    /\ Len(forceCache) = 2

\* C5: the registry holds at most one generator per contact type id, and it
\* is the generator adopted last for that id (none if none was adopted); a
\* registered generator has not been deleted; adoptForceGenerator for an id
\* that is registered replaces the previous generator and deletes it once,
\* and changes neither the entries of other ids nor the default generator.
C5_Registry ==
    /\ \A t \in TypeIds :
           MapFind(m_generators, t) =
               IF lastAdopted[t] = NullGen THEN {} ELSE {<<t, lastAdopted[t]>>}
    /\ \A e \in m_generators : deletes[e[2]] = 0
    /\ \A g \in DOMAIN deletes : deletes[g] <= 1
C5_Step ==
    \A kind \in GenKinds :
        AdoptForceGenerator(kind) =>
            LET t == getContactTypeId(kind)
                old == MapFind(m_generators, t)
            IN  /\ m_generators' = (m_generators \ old) \cup {<<t, Len(heap) + 1>>}
                /\ m_defaultGenerator' = m_defaultGenerator
                /\ \A g \in DOMAIN deletes :
                       deletes'[g] =
                           IF \E e \in old : e[2] = g
                           THEN deletes[g] + 1 ELSE deletes[g]
C5_OneGeneratorPerType == []C5_Registry /\ [][C5_Step]_vars

\* A second HertzCircular generator has replaced the constructor's, which
\* has been deleted.
C5_Witness ==
    /\ <<CircularPointTypeId, 4>> \in m_generators
    /\ deletes[1] = 1
    /\ <<TriangleMeshTypeId, 2>> \in m_generators

\* C6: immediately after every adoptForceGenerator and every
\* adoptDefaultForceGenerator call neither the force cache nor the
\* potential-energy cache is valid.
C6_Step ==
    (AnyAdoptForceGenerator \/ AnyAdoptDefaultForceGenerator)
        => ~forceCacheValid' /\ ~peCacheValid'
C6_AdoptInvalidatesCaches == [][C6_Step]_vars

\* A generator has been adopted for a State that had contacts and a
\* dissipated energy set: the State is back at Empty stage, nothing cached.
C6_Witness ==
    /\ Len(heap) = MaxGens
    /\ stage = StageEmpty
    /\ contacts # <<>>
    /\ z = R(5)
    /\ ~forceCacheValid
    /\ ~peCacheValid

C8_MissingGeneratorDetected ==
    NullReached =>
        /\ ~forceCacheValid
        /\ ~peCacheValid
        /\ outcome[2] # "crash"

\* C9: adoptDefaultForceGenerator accepts a null generator, after which
\* hasDefaultForceGenerator is false; null or not, the previous default is
\* deleted once, the new one is the default, and the per-type entries are
\* unchanged.  The default in place has not been deleted.
C9_Step ==
    \A isNull \in BOOLEAN :
        AdoptDefaultForceGenerator(isNull) =>
            /\ outcome' = Ok
            /\ isNull => ~hasDefaultForceGenerator'
            /\ ~isNull => m_defaultGenerator' = Len(heap) + 1
            /\ m_generators' = m_generators
            /\ \A g \in DOMAIN deletes :
                   deletes'[g] = IF g = m_defaultGenerator
                                 THEN deletes[g] + 1 ELSE deletes[g]
C9_Default ==
    hasDefaultForceGenerator => deletes[m_defaultGenerator] = 0
C9_AdoptDefaultReplaces == []C9_Default /\ [][C9_Step]_vars

\* The constructor's DoNothing default has been replaced by null and deleted.
C9_Witness ==
    /\ ~hasDefaultForceGenerator
    /\ deletes[3] = 1
    /\ Cardinality(m_generators) = 2

\* C10: setDissipatedEnergy with energy < 0 is rejected with an error and
\* leaves the dissipated energy as it was; with energy >= 0 it succeeds and
\* getDissipatedEnergy then returns energy.
C10_Step ==
    \A energy \in EnergyInputs :
        SetDissipatedEnergy(energy) =>
            IF RLt(energy, R(0))
            THEN /\ outcome' = <<"setDissipatedEnergy", "ErrChk">>
                 /\ getDissipatedEnergy' = getDissipatedEnergy
            ELSE /\ outcome' = Ok
                 /\ getDissipatedEnergy' = energy
C10_DissipatedEnergyNonnegative == [][C10_Step]_vars

\* setDissipatedEnergy(s, 5) was accepted and setDissipatedEnergy(s, -1)
\* then rejected: the dissipated energy is still 5.
C10_Witness ==
    /\ outcome = <<"setDissipatedEnergy", "ErrChk">>
    /\ getDissipatedEnergy = R(5)

\* C11: setTransitionVelocity(vt) with vt <= 0 is rejected with an error and
\* leaves the stored transition velocity and its reciprocal as they were;
\* with vt > 0 it stores vt and 1/vt; after construction and after any
\* sequence of calls the stored value is positive and the cached reciprocal
\* times the stored value is 1.
C11_Reciprocal ==
    /\ RLt(R(0), m_transitionVelocity)
    /\ RMul(m_ooTransitionVelocity, m_transitionVelocity) = R(1)
C11_Step ==
    \A vt \in VtInputs :
        SetTransitionVelocity(vt) =>
            IF RLe(vt, R(0))
            THEN /\ outcome' = <<"setTransitionVelocity", "ErrChk">>
                 /\ UNCHANGED vtVars
            ELSE /\ outcome' = Ok
                 /\ m_transitionVelocity' = vt
                 /\ m_ooTransitionVelocity' = RDiv(R(1), vt)
C11_TransitionVelocityPositive == []C11_Reciprocal /\ [][C11_Step]_vars

\* setTransitionVelocity(1) was accepted and a value <= 0 then rejected.
C11_Witness ==
    /\ outcome = <<"setTransitionVelocity", "ErrChk">>
    /\ m_transitionVelocity = R(1)
    /\ m_ooTransitionVelocity = R(1)

\* C12: with materials of non-negative stiffness, dissipation and friction
\* (those of getMaterial), every force the Hertz generator produces has power
\* loss >= 0, so the zdot that the acceleration pass sets is >= 0, and the
\* dissipated energy z never decreases while setDissipatedEnergy is not called.
C12_PowerLoss ==
    /\ \A j \in 1..Len(forceCache) : RLe(R(0), forceCache[j].m_powerLoss)
    /\ RLe(R(0), zdot)
C12_Step == RLe(z, z')
C12_DissipationNeverDecreases == []C12_PowerLoss /\ [][C12_Step]_vars

\* Energy has been dissipated over a step, and the next acceleration pass
\* again found a contact losing power while the surfaces separate.
C12_Witness ==
    /\ stage = StageAcceleration
    /\ RLt(R(0), z)
    /\ RLt(R(0), zdot)
    /\ \E i \in 1..Len(contacts) : contacts[i].vel = Separating /\ InForceCache(i)

\* Contact i is one the Hertz generator finds yanking: depth > 0 and
\* fH + fHC <= 0.  As fH > 0 and fHC = fH * 1.5 * c * xdot, that is
\* 1 + 1.5 * c * xdot <= 0, where c is the dissipation of the material the
\* generator reads (that of surface 1) and xdot = vel . normal.
Yanks(i) ==
    /\ HandledByHertz(i)
    /\ RLt(R(0), contacts[i].depth)
    /\ RLe(RAdd(R(1), RMul(RMul(<<3, 2>>, getMaterial(contacts[i].surf1).c),
                           VDot(contacts[i].vel, contacts[i].normal))),
           R(0))

\* C13: for a contact with depth > 0 whose total normal force fH + fHC is
\* <= 0 (yanking) the Hertz generator returns a valid ContactForce, with the
\* contact id and the centre of pressure set, whose spatial force, potential
\* energy and power loss are exactly zero.
C13_YankingGivesValidZeroForce ==
    forceCacheValid =>
        \A i \in 1..Len(contacts) :
            Yanks(i) =>
                \E j \in 1..Len(forceCache) :
                    /\ forceCache[j].m_contactId = contacts[i].id
                    /\ ContactForce_isValid(forceCache[j])
                    /\ forceCache[j].m_centerOfPressureInG = contacts[i].origin
                    /\ forceCache[j].m_forceOnSurface2InG = <<Vec3Zero, Vec3Zero>>
                    /\ forceCache[j].m_potentialEnergy = R(0)
                    /\ forceCache[j].m_powerLoss = R(0)

\* A force cache built for a deep contact that is being yanked apart.
C13_Witness ==
    /\ forceCacheValid
    /\ \E i \in 1..Len(contacts) :
           Yanks(i) /\ contacts[i].depth = R(4) /\ InForceCache(i)

\* The entries the force cache holds for contact i.
EntriesFor(i) ==
    {j \in 1..Len(forceCache) : forceCache[j].m_contactId = contacts[i].id}

ContributionTo(force, b) ==
    LET contact == getContactById(force.m_contactId)
        F2cop == force.m_forceOnSurface2InG
        cop == force.m_centerOfPressureInG
    IN  SpatialAdd(
            IF getMobilizedBody(contact.surf1) = b
            THEN F1AtOrigin(F2cop, VSub(cop, BodyOriginLocation(b)))
            ELSE <<Vec3Zero, Vec3Zero>>,
            IF getMobilizedBody(contact.surf2) = b
            THEN F2AtOrigin(F2cop, VSub(cop, BodyOriginLocation(b)))
            ELSE <<Vec3Zero, Vec3Zero>>)

RECURSIVE SumContributions(_, _, _)
SumContributions(forces, j, b) ==
    IF j > Len(forces) THEN <<Vec3Zero, Vec3Zero>>
    ELSE SpatialAdd(ContributionTo(forces[j], b),
                    SumContributions(forces, j + 1, b))

\* Body b is body 1 or body 2 of the contact of some entry of forces.
Involved(forces, b) ==
    \E j \in 1..Len(forces) :
        \/ getMobilizedBody(getContactById(forces[j].m_contactId).surf1) = b
        \/ getMobilizedBody(getContactById(forces[j].m_contactId).surf2) = b

\* C15: the dynamics pass only adds to the shared body force array: after
\* the pass each body's entry is its value before the pass plus the sum of
\* the shifted contributions of the cached contact forces in which the body
\* is body 1 or body 2, and the entry of a body involved in no cached contact
\* force is unchanged.
C15_Step ==
    (stage' = StageDynamics /\ outcome' = Ok /\ AnyRealizeDynamics) =>
        \A b \in Bodies :
            /\ rigidBodyForces'[b] =
                   SpatialAdd(rigidBodyForces[b],
                              SumContributions(forceCache', 1, b))
            /\ ~Involved(forceCache', b) =>
                   rigidBodyForces'[b] = rigidBodyForces[b]
C15_DynamicsOnlyAdds == [][C15_Step]_vars

\* The pass ran on an array other subsystems had written: bodies 1 and 2
\* received contact forces, body 3 kept what it had.
C15_Witness ==
    /\ stage = StageDynamics
    /\ Len(forceCache) = 2
    /\ ~Involved(forceCache, 3)
    /\ rigidBodyForces[3] = OtherSubsystemForces[3]
    /\ rigidBodyForces[1] # OtherSubsystemForces[1]
    /\ rigidBodyForces[2] # OtherSubsystemForces[2]

\* What C16 says entry force (torque t and force f on surface 2 at the
\* centre of pressure p) applies to body b, with r = p - origin of b:
\* (t + r x f, f) if b is body 2, (-t - r x f, -f) if b is body 1.
AppliedTo(force, b) ==
    LET contact == getContactById(force.m_contactId)
        t == force.m_forceOnSurface2InG[1]
        f == force.m_forceOnSurface2InG[2]
        r == VSub(force.m_centerOfPressureInG, BodyOriginLocation(b))
    IN  SpatialAdd(
            IF getMobilizedBody(contact.surf2) = b
            THEN <<VAdd(t, VCross(r, f)), f>> ELSE <<Vec3Zero, Vec3Zero>>,
            IF getMobilizedBody(contact.surf1) = b
            THEN <<VSub(VNeg(t), VCross(r, f)), VNeg(f)>>
            ELSE <<Vec3Zero, Vec3Zero>>)

RECURSIVE SumApplied(_, _, _)
SumApplied(forces, j, b) ==
    IF j > Len(forces) THEN <<Vec3Zero, Vec3Zero>>
    ELSE SpatialAdd(AppliedTo(forces[j], b), SumApplied(forces, j + 1, b))

\* The linear force a step adds to body b.
LinearForceAdded(b) == VSub(rigidBodyForces'[b][2], rigidBodyForces[b][2])

\* C16: for every cached ContactForce with force f and torque t on surface 2
\* at centre of pressure p the dynamics pass applies (t + r2 x f, f) to body
\* 2 and (-t - r1 x f, -f) to body 1, ri = p - origin of body i; the linear
\* forces the pass adds across all bodies sum to zero.
C16_Step ==
    (stage' = StageDynamics /\ outcome' = Ok /\ AnyRealizeDynamics) =>
        /\ \A b \in Bodies :
               rigidBodyForces'[b] =
                   SpatialAdd(rigidBodyForces[b], SumApplied(forceCache', 1, b))
        /\ VAdd(LinearForceAdded(1),
                VAdd(LinearForceAdded(2), LinearForceAdded(3))) = Vec3Zero
C16_ActionAndReaction == [][C16_Step]_vars

\* The pass applied a mesh contact force with a torque at its centre of
\* pressure and a Hertz force pressing bodies 2 and 3 apart.
C16_Witness ==
    /\ stage = StageDynamics
    /\ Len(forceCache) = 2
    /\ forceCache[1].m_forceOnSurface2InG[1] # Vec3Zero
    /\ forceCache[2].m_forceOnSurface2InG[2] # Vec3Zero
    /\ Involved(forceCache, 3)
    /\ rigidBodyForces[3][2] # Vec3Zero

\* The sum of the power-loss fields of forces, zero for none.
RECURSIVE PowerLossTotal(_)
PowerLossTotal(forces) ==
    IF forces = <<>> THEN R(0)
    ELSE RAdd(PowerLossTotal(SubSeq(forces, 1, Len(forces) - 1)),
              forces[Len(forces)].m_powerLoss)

\* C17: the acceleration pass sets zdot, the time derivative of the
\* dissipated energy, to the sum of the power-loss fields of all entries of
\* the ensured valid force cache, zero when the cache is empty, and leaves
\* the dissipated energy z itself as it was.
C17_Step ==
    (stage' = StageAcceleration /\ outcome' = Ok /\ AnyRealizeAcceleration) =>
        /\ forceCacheValid'
        /\ zdot' = PowerLossTotal(forceCache')
        /\ forceCache' = <<>> => zdot' = R(0)
        /\ z' = z
RECURSIVE PotentialEnergyTotal(_)
PotentialEnergyTotal(forces) ==
    IF forces = <<>> THEN R(0)
    ELSE RAdd(PotentialEnergyTotal(SubSeq(forces, 1, Len(forces) - 1)),
              forces[Len(forces)].m_potentialEnergy)

\* A step in which calcPotentialEnergy had to compute: the potential-energy
\* entry was not valid, and the call made it valid or failed.
QueryComputed ==
    /\ ~peCacheValid
    /\ peCacheValid' \/ outcome'[1] = "calcPotentialEnergy"
    /\ AnyCalcPotentialEnergy

\* C18 as stated: whenever the force cache is not valid at the time of a
\* potential-energy query, the query leaves the force cache unchanged (same
\* contents, still not valid).
C18_Original_Step ==
    (QueryComputed /\ ~forceCacheValid) =>
        /\ forceCacheValid' = FALSE
        /\ forceCache' = forceCache
C18_QueryNeverBuildsForceCache == [][C18_Original_Step]_vars

\* C18, as the code has it: a potential-energy query on a State realized to
\* Velocity stage or later ensures the force cache is valid, building it if
\* it is not, and sums the cached potential-energy fields; on a State
\* realized to Position stage only it goes through the generators and leaves
\* the force cache unchanged (same contents, still not valid), whether it
\* succeeds or fails.
C18_Step ==
    QueryComputed =>
        IF stage >= StageVelocity
        THEN /\ outcome' = Ok
             /\ forceCacheValid'
             /\ forceCacheValid => forceCache' = forceCache
             /\ peCacheValid'
             /\ peCache' = PotentialEnergyTotal(forceCache')
        ELSE /\ ~forceCacheValid
             /\ forceCacheValid' = FALSE
             /\ forceCache' = forceCache
C18_QueryBranchesOnStage == [][C18_Step]_vars

\* A query at Velocity stage has built the force cache and summed the
\* potential energies of its two entries.
C18_Witness ==
    /\ stage = StageVelocity
    /\ forceCacheValid
    /\ peCacheValid
    /\ Len(forceCache) = 2
    /\ peCache = RAdd(forceCache[1].m_potentialEnergy,
                      forceCache[2].m_potentialEnergy)
    /\ peCache # R(0)

\* The force cache ensureForceCacheValid builds for the contacts at
\* Velocity stage.
ForceCacheAtVelocityStage ==
    ForceLoop(1, <<>>, CHOOSE u \in ForceChoices : TRUE).forceCache

\* C19: for active contacts all with depth > 0 and zero relative velocity,
\* the potential energy that calcPotentialEnergy computes by the
\* Position-stage path equals the sum of the potential-energy fields of the
\* force cache built for the same contacts at Velocity stage.
C19_Step ==
    (/\ stage = StagePosition
     /\ contacts # <<>>
     /\ \A i \in 1..Len(contacts) :
            RLt(R(0), contacts[i].depth) /\ contacts[i].vel = AtRest
     /\ QueryComputed) =>
        /\ outcome' = Ok
        /\ peCacheValid'
        /\ peCache' = PotentialEnergyTotal(ForceCacheAtVelocityStage)
C19_PositionPathMatchesVelocityPath == [][C19_Step]_vars

\* What the generator of active contact i returns at Velocity stage.
ResultFor(i) ==
    Generator_calcContactForce(getForceGenerator(contacts[i].typeId),
        contacts[i], TRUE, contacts[i].vel,
        CHOOSE u \in ForceChoices : TRUE, DefaultContactForce).force

\* The position among the active contacts of the contact with this id, 0
\* if it is not active.
ActiveIndex(id) ==
    IF \E i \in 1..Len(contacts) : contacts[i].id = id
    THEN CHOOSE i \in 1..Len(contacts) : contacts[i].id = id
    ELSE 0

\* C20: after a force-cache build the cache is the subsequence, in the
\* tracker's order, of the results for those active contacts whose generator
\* returned a valid ContactForce: at most one entry per active contact, no
\* entry for a contact that is not active, relative order preserved.
C20_Step ==
    (~forceCacheValid /\ forceCacheValid') =>
        /\ forceCache' =
               SelectSeq([i \in 1..Len(contacts) |-> ResultFor(i)],
                         ContactForce_isValid)
        /\ \A j \in 1..Len(forceCache') :
               ActiveIndex(forceCache'[j].m_contactId) # 0
        /\ \A j, k \in 1..Len(forceCache') :
               j < k => ActiveIndex(forceCache'[j].m_contactId)
                            < ActiveIndex(forceCache'[k].m_contactId)
C20_CacheIsOrderedSubsequence == [][C20_Step]_vars

\* A cache built for two contacts that both got an entry, in the tracker's
\* order.
C20_Witness ==
    /\ forceCacheValid
    /\ Len(contacts) = 2
    /\ Len(forceCache) = 2
    /\ forceCache[1].m_contactId = contacts[1].id
    /\ forceCache[2].m_contactId = contacts[2].id
    /\ forceCache[1].m_forceOnSurface2InG # forceCache[2].m_forceOnSurface2InG

\* s1 = k2/(k1+k2) with k1 the stiffness of the material of surface 1 of
\* contact i and k2 that of the material of its surface 2.
ShareOfSurface1(i) ==
    RDiv(getMaterial(contacts[i].surf2).k23,
         RAdd(getMaterial(contacts[i].surf1).k23,
              getMaterial(contacts[i].surf2).k23))

\* The square of (2/5) * fH * x for fH = (4/3) * k * x * sqrt(R * k * x).
PotentialEnergySquared(k, x, radius) ==
    RMul(RMul(RMul(RMul(<<8, 15>>, k), RMul(x, x)),
              RMul(RMul(<<8, 15>>, k), RMul(x, x))),
         RMul(RMul(radius, k), x))

\* C21: the Hertz generator combines the material of surface 1 with the
\* material of surface 2: s1 = k2/(k1+k2), combined stiffness k = k1*s1, and
\* the centre of pressure lies depth*(0.5-s1) along the normal from the
\* contact origin.
C21_CombinesBothMaterials ==
    forceCacheValid =>
        \A i \in 1..Len(contacts) :
            HandledByHertz(i) =>
                \A j \in EntriesFor(i) :
                    /\ forceCache[j].m_centerOfPressureInG =
                           VAdd(contacts[i].origin,
                                VScale(RMul(contacts[i].depth,
                                            RSub(<<1, 2>>, ShareOfSurface1(i))),
                                       contacts[i].normal))
                    /\ forceCache[j].m_forceOnSurface2InG # <<Vec3Zero, Vec3Zero>>
                           => RMul(forceCache[j].m_potentialEnergy,
                                   forceCache[j].m_potentialEnergy)
                              = PotentialEnergySquared(
                                    RMul(getMaterial(contacts[i].surf1).k23,
                                         ShareOfSurface1(i)),
                                    contacts[i].depth, contacts[i].radius)

\* C22: stribeck(us, ud, uv, v) has no jump at the segment boundaries: for
\* us >= ud >= 0 and uv >= 0 the formulas of the two adjacent segments agree
\* at v = 1 (value us), at v = 3 (value ud) and at v = 4 (value ud + uv), and
\* stribeck(us, ud, uv, 0) = 0.
C22_StribeckContinuous ==
    /\ probe.fn = "segment" =>
           /\ (probe.args[5] = R(1) /\ probe.args[1] \in {1, 2})
                  => probe.value = probe.args[2]
           /\ (probe.args[5] = R(3) /\ probe.args[1] \in {2, 3})
                  => probe.value = probe.args[3]
           /\ (probe.args[5] = R(4) /\ probe.args[1] \in {3, 4})
                  => probe.value = RAdd(probe.args[3], probe.args[4])
    /\ probe.fn = "stribeck" =>
           /\ probe.args[4] = R(0) => probe.value = R(0)
           /\ probe.args[4] = R(1) => probe.value = probe.args[1]
           /\ probe.args[4] = R(3) => probe.value = probe.args[2]
           /\ probe.args[4] = R(4)
                  => probe.value = RAdd(probe.args[2], probe.args[3])

\* The sliding formula evaluated at v = 4 for us = 2, ud = 1/2, uv = 1.
C22_Witness ==
    /\ probe.fn = "segment"
    /\ probe.args = <<4, R(2), <<1, 2>>, R(1), R(4)>>
    /\ probe.value = <<3, 2>>

\* C23: the combining rules are symmetric and have their fixed points: the
\* combined stiffness is k1*k2/(k1+k2), the same for (k1, k2) and (k2, k1);
\* the friction combination 2*u1*u2/(u1+u2) gives u for (u, u), the same
\* for (u1, u2) and (u2, u1), and 0, without a division by zero, whenever
\* either coefficient is 0.
C23_CombiningRules ==
    /\ probe.fn = "CombineStiffness" =>
           /\ probe.value = RDiv(RMul(probe.args[1], probe.args[2]),
                                 RAdd(probe.args[1], probe.args[2]))
           /\ probe.value = CombineStiffness(probe.args[2], probe.args[1])
    /\ probe.fn = "CombineFriction" =>
           /\ probe.value = CombineFriction(probe.args[2], probe.args[1])
           /\ probe.args[1] = probe.args[2] => probe.value = probe.args[1]
           /\ (probe.args[1] = R(0) \/ probe.args[2] = R(0))
                  => probe.value = R(0)
           /\ probe.value # NaN

\* Two frictionless materials combined.
C23_Witness ==
    /\ probe.fn = "CombineFriction"
    /\ probe.args = <<R(0), R(0)>>
    /\ probe.value = R(0)

\* The operation of this step failed.
Failed == outcome'[2] # "none"

\* C24: a cache entry is marked valid only after every active contact has
\* been processed: a build of the force cache or of the potential-energy
\* cache that fails part-way (stage error, missing generator, generator
\* error) marks no entry valid, and a force cache that becomes valid holds
\* an entry for every contact that presses under the Hertz generator.
C24_Step ==
    /\ Failed => /\ forceCacheValid' => forceCacheValid
                 /\ peCacheValid' => peCacheValid
    /\ (~forceCacheValid /\ forceCacheValid') =>
           \A i \in 1..Len(contacts) :
               (HandledByHertz(i) /\ RLt(R(0), contacts[i].depth)) =>
                   \E j \in 1..Len(forceCache') :
                       forceCache'[j].m_contactId = contacts[i].id
C24_ValidOnlyWhenComplete == [][C24_Step]_vars

\* A potential-energy query at Position stage got past its first contact
\* and failed at the second: the entry is not valid.
C24_Witness ==
    /\ outcome = <<"calcPotentialEnergy", "StageError">>
    /\ stage = StagePosition
    /\ Len(contacts) = 2
    /\ contacts[1].depth = R(0)
    /\ RLt(R(0), contacts[2].depth)
    /\ HandledByHertz(1) /\ HandledByHertz(2)
    /\ ~peCacheValid

\* C25: between two invalidations the force cache is built at most once,
\* however many times and in whatever order the dynamics pass, the
\* acceleration pass and potential-energy queries run: while the cache stays
\* valid no operation goes through the generators again, so its contents
\* stay what the first ensureForceCacheValid made them, even when a
\* rebuild would give other forces.
C25_Step == (forceCacheValid /\ forceCacheValid') => forceCache' = forceCache
C25_BuiltOncePerInvalidation == [][C25_Step]_vars

\* After a rollback the cache was built, the transition velocity was then
\* changed, and the acceleration pass ran on the cache as built: a rebuild
\* would have given other friction forces.
C25_Witness ==
    /\ stage = StageAcceleration
    /\ RLt(R(0), z)
    /\ forceCacheValid
    /\ forceCache # ForceCacheAtVelocityStage
    /\ zdot = PowerLossTotal(forceCache)

\* C26: when the squared tangential slip speed does not exceed the
\* near-zero threshold, the Hertz generator evaluates no friction: the
\* reported force is along the contact normal with magnitude fH + fHC (no
\* friction force), and the power loss is fHC * xdot (no friction power).
\* Here the normal is (0,0,1), so xdot is the third component of the
\* velocity and the slip its first; fH is recovered from the reported
\* potential energy (2/5) * fH * x at depth x = 1, and the dissipation read
\* for both surfaces is that of surface 1.
C26_NoFrictionBelowThreshold ==
    (/\ probe.fn = "HertzForce"
     /\ RLe(RMul(probe.args[1][1], probe.args[1][1]), SignificantRealSq)) =>
        LET xdot == probe.args[1][3]
            fH == RMul(<<5, 2>>, probe.value.m_potentialEnergy)
            fHC == RMul(RMul(RMul(fH, <<3, 2>>), getMaterial(1).c), xdot)
        IN  /\ RLt(R(0), fH)
            /\ probe.value.m_forceOnSurface2InG
                   = <<Vec3Zero, <<R(0), R(0), RAdd(fH, fHC)>>>>
            /\ probe.value.m_powerLoss = RMul(fHC, xdot)

\* The surfaces slip at exactly the threshold speed while they approach: the
\* force has no tangential part, and power is lost to dissipation only.
C26_Witness ==
    /\ probe.fn = "HertzForce"
    /\ probe.args = <<(<<(<<1, 1000>>), R(0), R(1)>>)>>
    /\ probe.value.m_forceOnSurface2InG[2][1] = R(0)
    /\ RLt(R(0), probe.value.m_powerLoss)

\* C27: invoked with both surface velocities zero for a contact with depth
\* > 0, the Hertz generator returns potential energy (2/5) * fH * depth and
\* power loss 0 whatever the body velocities stored in the State are, and
\* needs no State realized beyond Position stage.  For the contact of
\* EvalCalcContactForce fH = 4/3 and the potential energy is 8/15.
C27_DependsOnPassedVelocitiesOnly ==
    probe.fn = "calcContactForce" =>
        /\ probe.value.err = "none"
        /\ probe.value.force.m_potentialEnergy = <<8, 15>>
        /\ probe.value.force.m_powerLoss = R(0)

\* What contact i adds to the potential energy if only valid results count,
\* the State's velocity reads being answered as u says.
ValidPotentialEnergy(i, u) ==
    LET r == Generator_calcContactForce(getForceGenerator(contacts[i].typeId),
                 contacts[i], TRUE, u.stale, u, DefaultContactForce)
    IN  IF ContactForce_isValid(r.force) THEN r.force.m_potentialEnergy
        ELSE R(0)

RECURSIVE SumValidPotentialEnergy(_, _)
SumValidPotentialEnergy(i, u) ==
    IF i > Len(contacts) THEN R(0)
    ELSE RAdd(ValidPotentialEnergy(i, u), SumValidPotentialEnergy(i + 1, u))

\* C29: in the Position-stage potential-energy path a contact whose
\* generator returns an invalid result (depth <= 0, say) contributes exactly
\* zero: the cached value is the sum of the potential energies of the
\* force-producing contacts only.
C29_Step ==
    (stage = StagePosition /\ ~peCacheValid /\ peCacheValid') =>
        \E u \in UBChoices : peCache' = SumValidPotentialEnergy(1, u)
C29_InvalidResultsAddNothing == [][C29_Step]_vars

\* The generators reachable from the registry of an implementation that
\* has not been destroyed.
Reachable ==
    (IF ImplAlive THEN RegistryGens(m_generators, m_defaultGenerator) ELSE {})
    \cup (IF CloneAlive
          THEN RegistryGens(clone.m_generators, clone.m_defaultGenerator)
          ELSE {})

\* C28: over any sequence of adoptForceGenerator, adoptDefaultForceGenerator,
\* cloneImpl and destruction of implementations, every adopted generator is
\* disposed at most once and is never reachable from a registry (per-type
\* entry or default slot) after it was disposed; this includes adopting the
\* generator that already occupies its slot, and destroying both an
\* implementation and its clone.
C28_DisposedAtMostOnce ==
    \A g \in Gens :
        /\ deletes[g] <= 1
        /\ g \in Reachable => deletes[g] = 0

====
